---------------------------- MODULE Spec2Model ----------------------------
(***************************************************************************)
(* Verification model of the pixeltree generation pipeline                 *)
(* (TreeGenerator, LSystemGenerator, TreeStructure, TreeRenderer, Random,  *)
(* TreeParameters).                                                        *)
(*                                                                         *)
(* Representation choices:                                                 *)
(*  - float values are fixed-point integers in thousandths (1.0 = 1000),   *)
(*    products truncate; angles are in thousandths of a degree;            *)
(*  - a std::string is a sequence of one-character strings;                *)
(*  - a shared_ptr<Branch> is the 1-based index of the branch in           *)
(*    TreeStructure::all_branches, 0 is nullptr;                           *)
(*  - a uint32_t RGBA pixel is the tuple of its four bytes <<r,g,b,a>>;    *)
(*  - a PixelBuffer is its width, its height and the map from the indices  *)
(*    y*width+x that hold a value other than the cleared value to that     *)
(*    value;                                                               *)
(*  - std::mt19937 is a small shift register of RngDigits digits: a       *)
(*    deterministic function of its seed, one draw per digit in turn.      *)
(***************************************************************************)
EXTENDS Integers, Sequences, FiniteSets, TLC

\* ------------------------------------------------------------------ bounds

\* std::random_device and the seeds callers pass range over 0..MaxSeed
MaxSeed == 3
\* the longest list a caller passes to generate_batch
MaxBatch == 2

\* ------------------------------------------------------------- fixed point

One == 1000

\* a float that is not a number (std::nanf): a value outside every range the
\* model computes with, for which every ordering comparison is false
NaN == -(One * One * One)

\* a < b on floats
Less(a, b) == a # NaN /\ b # NaN /\ a < b

\* TRUE for every value: the comparison makes the model checker compute v
\* before going on, so that a loop's iterations are computed in order
Evaluated(v) == v = v

Min2(a, b) == IF a < b THEN a ELSE b
Max2(a, b) == IF a > b THEN a ELSE b
Abs(a) == IF a < 0 THEN -a ELSE a

\* product of two fixed-point values, truncated toward zero
Mul(a, b) ==
    LET p == a * b
    IN  IF a = NaN \/ b = NaN THEN NaN
        ELSE IF p >= 0 THEN p \div One ELSE -((-p) \div One)

\* std::clamp(value, Min, Max)
Clamp(value, lo, hi) == IF Less(value, lo) THEN lo ELSE IF Less(hi, value) THEN hi ELSE value

\* static_cast<int>(std::round(v)): nearest integer, halves away from zero
RoundToInt(v) ==
    IF v >= 0 THEN (v + One \div 2) \div One ELSE -((-v + One \div 2) \div One)

\* static_cast<int>(std::ceil(v))
CeilToInt(v) ==
    IF v >= 0 THEN (v + One - 1) \div One ELSE -((-v) \div One)

\* static_cast<uint8_t>(v) of a float already clamped to [0,255]: truncation
TruncToByte(v) == v \div One

\* ------------------------------------------------------------- math_types

Point2D(x, y) == [x |-> x, y |-> y]
PointAdd(p, q) == [x |-> p.x + q.x, y |-> p.y + q.y]
PointScale(p, s) == [x |-> Mul(p.x, s), y |-> Mul(p.y, s)]

Rect2D(mn, mx) == [min |-> mn, max |-> mx]

Color(r, g, b) == [r |-> r, g |-> g, b |-> b, a |-> 255]

\* Color::to_rgba: bytes in the order r (bits 31..24), g, b, a (bits 7..0)
to_rgba(c) == <<c.r, c.g, c.b, c.a>>

\* a canvas size stored as it was asked for
BoundedCanvasAsAsked(v) == v

\* BoundedValue<T,Min,Max>: construction and assignment clamp
BoundedValue(value, lo, hi) == Clamp(value, lo, hi)
BoundedFloat01(v) == BoundedValue(v, 0, One)
BoundedFloat10(v) == BoundedValue(v, One \div 10, 10 * One)
BoundedAngle(v) == BoundedValue(v, 0, 360 * One)
BoundedDepth(v) == BoundedValue(v, 1, 10)
BoundedBranches(v) == BoundedValue(v, 8, 64)
BoundedCanvas(v) == BoundedValue(v, 16, 512)

\* ----------------------------------------------------------------- random

\* value of next_float() for each raw digit: three points of [0,1)
DrawLevels == <<950, 300, 850>>

\* the generator's state is RngDigits digits in base RngBase
RngBase == Len(DrawLevels)
RngDigits == 5
RngStates == RngBase ^ RngDigits

\* Random::Random(seed): generator_(seed)
Random(seed) == seed % RngStates

\* the float next_float() returns in state rng
FloatOf(rng) == DrawLevels[(rng % RngBase) + 1]

\* the state after one draw: the digits rotate
Advance(rng) == (rng \div RngBase) + (rng % RngBase) * (RngStates \div RngBase)

\* Random::next_float(min, max), given the unit draw u
next_float_range(u, lo, hi) == lo + Mul(u, hi - lo)

\* Random::next_int(min, max), given the unit draw u
next_int(u, lo, hi) == lo + (u * (hi - lo + 1)) \div One

\* -------------------------------------------------------------- parameters

TreeTypes == {"Oak", "Pine", "Palm", "Birch", "Willow", "Dead", "Custom"}
Seasons == {"Spring", "Summer", "Autumn", "Winter"}

\* static_cast<float>(growth_stage)
GrowthStageValue(stage) ==
    CASE stage = "Seed" -> 0
      [] stage = "Sapling" -> 1
      [] stage = "Young" -> 2
      [] stage = "Mature" -> 3
      [] stage = "Old" -> 4
      [] stage = "Dead" -> 5

BranchParameters ==
    [ base_thickness |-> BoundedFloat10(2000),
      thickness_decay |-> BoundedFloat01(800),
      branch_probability |-> BoundedFloat01(700),
      branch_angle_variation |-> BoundedFloat01(300),
      max_depth |-> BoundedDepth(5),
      max_branches |-> BoundedBranches(32),
      curvature |-> BoundedFloat01(100),
      asymmetry |-> BoundedFloat01(200) ]

LeafParameters ==
    [ density |-> BoundedFloat01(800),
      size_base |-> BoundedFloat10(3000),
      size_variation |-> BoundedFloat01(300),
      color_variation |-> BoundedFloat01(200),
      base_colors |-> << Color(34, 139, 34), Color(50, 205, 50),
                         Color(107, 142, 35), Color(85, 107, 47) >>,
      alpha_variation |-> BoundedFloat01(100) ]

TrunkParameters ==
    [ base_color |-> Color(101, 67, 33),
      color_variation |-> BoundedFloat01(150),
      texture_noise |-> BoundedFloat01(100),
      bark_detail |-> BoundedFloat01(0) ]

\* TreeParameters with its default member initializers
TreeParameters ==
    [ type |-> "Oak",
      growth_stage |-> "Mature",
      season |-> "Summer",
      canvas_width |-> BoundedCanvas(128),
      canvas_height |-> BoundedCanvas(128),
      overall_scale |-> BoundedFloat10(1000),
      branches |-> BranchParameters,
      leaves |-> LeafParameters,
      trunk |-> TrunkParameters,
      wind_direction |-> BoundedAngle(0),
      wind_strength |-> BoundedFloat01(0),
      age_factor |-> BoundedFloat01(500),
      random_seed |-> 0,
      determinism |-> BoundedFloat01(800) ]

\* a tree-type switch whose Dead case leaves the leaf density alone
ValidateTypeKeepsDensity(p) ==
    CASE p.type = "Pine" ->
           [p EXCEPT !.branches.branch_angle_variation = BoundedFloat01(Min2(@, 200)),
                     !.leaves.density = BoundedFloat01(Min2(@, 600))]
      [] p.type = "Palm" ->
           [p EXCEPT !.branches.max_depth = BoundedDepth(Min2(@, 3)),
                     !.branches.curvature = BoundedFloat01(Max2(@, 300))]
      [] p.type = "Willow" ->
           [p EXCEPT !.branches.curvature = BoundedFloat01(Max2(@, 400))]
      [] p.type = "Dead" ->
           [p EXCEPT !.trunk.color_variation = BoundedFloat01(Max2(@, 300))]
      [] OTHER -> p

\* TreeParameters::validate, the tree-type switch
ValidateType(p) ==
    CASE p.type = "Pine" ->
           [p EXCEPT !.branches.branch_angle_variation = BoundedFloat01(Min2(@, 200)),
                     !.leaves.density = BoundedFloat01(Min2(@, 600))]
      [] p.type = "Palm" ->
           [p EXCEPT !.branches.max_depth = BoundedDepth(Min2(@, 3)),
                     !.branches.curvature = BoundedFloat01(Max2(@, 300))]
      [] p.type = "Willow" ->
           [p EXCEPT !.branches.curvature = BoundedFloat01(Max2(@, 400))]
      [] p.type = "Dead" ->
           [p EXCEPT !.leaves.density = BoundedFloat01(0),
                     !.trunk.color_variation = BoundedFloat01(Max2(@, 300))]
      [] OTHER -> p

\* TreeParameters::validate, the growth-stage scaling
ValidateGrowth(p) ==
    LET growth_factor == (GrowthStageValue(p.growth_stage) * One) \div GrowthStageValue("Mature")
    IN  [p EXCEPT !.overall_scale = BoundedFloat10(Mul(@, 200 + Mul(800, growth_factor)))]

\* a validate() without a season adjustment
ValidateSeasonIgnored(p) == p

\* TreeParameters::validate, the season adjustment
ValidateSeason(p) ==
    IF p.season = "Autumn"
    THEN [p EXCEPT !.leaves.base_colors = << Color(255, 140, 0), Color(255, 165, 0),
                                            Color(255, 69, 0), Color(139, 69, 19) >>]
    ELSE IF p.season = "Winter"
    THEN [p EXCEPT !.leaves.density = BoundedFloat01(Mul(@, 300))]
    ELSE p

\* TreeParameters::validate
validate(p) == ValidateSeason(ValidateGrowth(ValidateType(p)))

\* TreePresets::oak
PresetOak ==
    [TreeParameters EXCEPT !.type = "Oak",
                           !.branches.branch_probability = BoundedFloat01(800),
                           !.branches.max_depth = BoundedDepth(5),
                           !.branches.curvature = BoundedFloat01(150),
                           !.leaves.density = BoundedFloat01(900),
                           !.leaves.size_base = BoundedFloat10(4000)]

\* TreePresets::pine
PresetPine ==
    [TreeParameters EXCEPT !.type = "Pine",
                           !.branches.branch_probability = BoundedFloat01(600),
                           !.branches.branch_angle_variation = BoundedFloat01(150),
                           !.branches.max_depth = BoundedDepth(6),
                           !.leaves.density = BoundedFloat01(700),
                           !.leaves.base_colors = << Color(34, 139, 34), Color(0, 100, 0),
                                                    Color(46, 125, 50), Color(27, 94, 32) >>]

\* TreePresets::palm
PresetPalm ==
    [TreeParameters EXCEPT !.type = "Palm",
                           !.branches.max_depth = BoundedDepth(2),
                           !.branches.curvature = BoundedFloat01(400),
                           !.branches.base_thickness = BoundedFloat10(1500),
                           !.leaves.density = BoundedFloat01(400),
                           !.leaves.size_base = BoundedFloat10(8000)]

\* TreePresets::dead
PresetDead ==
    [TreeParameters EXCEPT !.type = "Dead",
                           !.branches.branch_probability = BoundedFloat01(500),
                           !.leaves.density = BoundedFloat01(0),
                           !.trunk.base_color = Color(101, 67, 33),
                           !.trunk.color_variation = BoundedFloat01(400)]

\* ----------------------------------------------------------------- lsystem

\* a branching pattern whose second bracket is not closed
BranchPatternUnclosed == <<"[", "+", "F", "]", "[", "-", "F">>

\* the branching pattern appended after a grow symbol
BranchPattern == <<"[", "+", "F", "]", "[", "-", "F", "]">>

\* a comparison that also branches when the draw equals the probability
RewriteCharDrawAtMost(c, acc, params, u) ==
    IF c = "F"
    THEN [ str |-> IF u <= params.branches.branch_probability
                   THEN acc.str \o <<"F">> \o BranchPattern
                   ELSE Append(acc.str, "F"),
           rng |-> Advance(acc.rng) ]
    ELSE [acc EXCEPT !.str = Append(@, c)]

\* LSystemGenerator::generate_string, the body of the inner loop for the
\* character c, u being what rng.next_float() returns; acc holds next_result
\* and the random source
RewriteCharDraw(c, acc, params, u) ==
    IF c = "F"
    THEN [ str |-> IF u < params.branches.branch_probability
                   THEN acc.str \o <<"F">> \o BranchPattern
                   ELSE Append(acc.str, "F"),
           rng |-> Advance(acc.rng) ]
    ELSE [acc EXCEPT !.str = Append(@, c)]

\* the same with the draw of the random source acc.rng
RewriteChar(c, acc, params) == RewriteCharDraw(c, acc, params, FloatOf(acc.rng))

\* LSystemGenerator::generate_string, the inner loop over the characters
\* lo..hi of result, left to right (the range is run as its two halves in turn)
RECURSIVE RewritePass(_, _, _, _, _)
RewritePass(result, lo, hi, acc, params) ==
    IF lo > hi THEN acc
    ELSE IF lo = hi THEN RewriteChar(result[lo], acc, params)
    ELSE LET mid == (lo + hi) \div 2
             left == RewritePass(result, lo, mid, acc, params)
         IN  IF Evaluated(left.rng) THEN RewritePass(result, mid + 1, hi, left, params) ELSE left

\* LSystemGenerator::generate_string, the outer loop from iteration on
RECURSIVE RewriteFrom(_, _, _, _)
RewriteFrom(iteration, result, rng, params) ==
    IF iteration < params.branches.max_depth
    THEN LET pass == RewritePass(result, 1, Len(result), [str |-> <<>>, rng |-> rng], params)
         IN  RewriteFrom(iteration + 1, pass.str, pass.rng, params)
    ELSE [str |-> result, rng |-> rng]

\* LSystemGenerator::generate_string
generate_string(params, rng) == RewriteFrom(0, <<"F">>, rng, params)

\* Math constant pi / 180 in millionths: degrees to radians
RadPerDegMicro == 17453

\* quotient truncated toward zero
Div(a, b) == IF a >= 0 THEN a \div b ELSE -((-a) \div b)

\* angle_degrees * M_PI / 180.0f, thousandths of a degree to thousandths of a radian
ToRadians(angle_degrees) == Div(angle_degrees * RadPerDegMicro, 1000000)

\* std::cos on thousandths of a radian (series to the fourth power)
Cos(x) ==
    LET x2 == Mul(x, x)
    IN  One - Div(x2, 2) + Div(Mul(x2, x2), 24)

\* std::sin on thousandths of a radian (series to the fifth power)
Sin(x) ==
    LET x2 == Mul(x, x)
        x3 == Mul(x, x2)
    IN  x - Div(x3, 6) + Div(Mul(x3, x2), 120)

\* LSystemGenerator::rotate_vector
rotate_vector(vec, angle_degrees) ==
    LET angle_rad == ToRadians(angle_degrees)
        cos_a == Cos(angle_rad)
        sin_a == Sin(angle_rad)
    IN  Point2D(Mul(vec.x, cos_a) - Mul(vec.y, sin_a),
                Mul(vec.x, sin_a) + Mul(vec.y, cos_a))

\* LSystemState
LSystemState(pos, dir, thick, d, col) ==
    [position |-> pos, direction |-> dir, thickness |-> thick, depth |-> d, color |-> col]

\* Branch::Branch: no parent, no children
Branch(start, end, thick, depth) ==
    [ parent |-> 0, children |-> <<>>,
      start_point |-> start, end_point |-> end,
      thickness |-> thick, curvature |-> 0,
      color |-> Color(101, 67, 33), depth_level |-> depth,
      generation_id |-> 0, growth_factor |-> One ]

\* TreeStructure::TreeStructure(params)
TreeStructure(params) ==
    [ root |-> 0, all_branches |-> <<>>, leaf_clusters |-> <<>>,
      parameters |-> params,
      bounding_box |-> Rect2D(Point2D(0, 0), Point2D(0, 0)),
      generation_id |-> 0 ]

\* the interpreter's locals at the start of string_to_tree
InterpreterStart(params, rng) ==
    [ tree |-> TreeStructure(params),
      state_stack |-> <<>>,
      current_state |-> LSystemState(
          Point2D(Mul(params.canvas_width * One, 500), Mul(params.canvas_height * One, 900)),
          Point2D(0, -One),
          params.branches.base_thickness, 0, params.trunk.base_color),
      current_branch |-> 0,
      rng |-> rng ]

\* a link that makes every new branch the root
LinkBranchRootLast(tree, current_branch, branch) ==
    LET idx == Len(tree.all_branches) + 1
    IN  IF current_branch = 0
        THEN [tree EXCEPT !.root = idx,
                          !.all_branches = Append(@, branch)]
        ELSE [tree EXCEPT !.root = idx,
                          !.all_branches =
                 Append([@ EXCEPT ![current_branch].children = Append(@, idx)],
                        [branch EXCEPT !.parent = current_branch])]

\* a link that lists the new branch as a child but leaves its parent unset
LinkBranchNoParent(tree, current_branch, branch) ==
    LET idx == Len(tree.all_branches) + 1
    IN  IF tree.root = 0
        THEN [tree EXCEPT !.root = idx,
                          !.all_branches = Append(@, branch)]
        ELSE [tree EXCEPT !.all_branches =
                 Append([@ EXCEPT ![current_branch].children = Append(@, idx)], branch)]

\* a link that makes every later branch a child of the root
LinkBranchUnderRoot(tree, current_branch, branch) ==
    LET idx == Len(tree.all_branches) + 1
    IN  IF tree.root = 0
        THEN [tree EXCEPT !.root = idx,
                          !.all_branches = Append(@, branch)]
        ELSE [tree EXCEPT !.all_branches =
                 Append([@ EXCEPT ![tree.root].children = Append(@, idx)],
                        [branch EXCEPT !.parent = tree.root])]

\* string_to_tree, case 'F': the link of the new branch to the tree
LinkBranch(tree, current_branch, branch) ==
    LET idx == Len(tree.all_branches) + 1
    IN  IF tree.root = 0
        THEN [tree EXCEPT !.root = idx,
                          !.all_branches = Append(@, branch)]
        ELSE IF current_branch # 0
        THEN [tree EXCEPT !.all_branches =
                 Append([@ EXCEPT ![current_branch].children = Append(@, idx)],
                        [branch EXCEPT !.parent = current_branch])]
        ELSE [tree EXCEPT !.all_branches = Append(@, branch)]

\* string_to_tree, case 'F'
SymbolGrow(it, params) ==
    LET branch_length == Mul(15 * One, params.overall_scale)
        end_pos == PointAdd(it.current_state.position,
                            PointScale(it.current_state.direction, branch_length))
        branch == [Branch(it.current_state.position, end_pos,
                          it.current_state.thickness, it.current_state.depth)
                      EXCEPT !.color = it.current_state.color]
    IN  [it EXCEPT !.tree = LinkBranch(it.tree, it.current_branch, branch),
                   !.current_branch = Len(it.tree.all_branches) + 1,
                   !.current_state.position = end_pos]

\* string_to_tree, case '['
SymbolPush(it) == [it EXCEPT !.state_stack = Append(@, it.current_state)]

\* string_to_tree, case ']'
SymbolPop(it) ==
    IF it.state_stack # <<>>
    THEN [it EXCEPT !.current_state = it.state_stack[Len(it.state_stack)],
                    !.state_stack = SubSeq(@, 1, Len(@) - 1)]
    ELSE it

\* string_to_tree, cases '+' (sign 1) and '-' (sign -1)
SymbolTurn(it, params, sign) ==
    LET angle == Mul(next_float_range(FloatOf(it.rng), -45 * One, 45 * One),
                     params.branches.branch_angle_variation)
    IN  [it EXCEPT !.current_state.direction = rotate_vector(@, sign * angle),
                   !.rng = Advance(it.rng)]

\* a decay step that leaves the depth as it is
ApplyDecayThicknessOnly(it, params) ==
    [it EXCEPT !.current_state.thickness = Mul(@, params.branches.thickness_decay)]

\* string_to_tree, the decay applied after every symbol
ApplyDecay(it, params) ==
    [it EXCEPT !.current_state.thickness = Mul(@, params.branches.thickness_decay),
               !.current_state.depth = @ + 1]

\* string_to_tree, the body of the loop for one character
InterpretSymbol(c, it, params) ==
    ApplyDecay(
        CASE c = "F" -> SymbolGrow(it, params)
          [] c = "[" -> SymbolPush(it)
          [] c = "]" -> SymbolPop(it)
          [] c = "+" -> SymbolTurn(it, params, 1)
          [] c = "-" -> SymbolTurn(it, params, -1)
          [] OTHER -> it,
        params)

\* string_to_tree, the loop over the characters lo..hi of lstring, left to
\* right (the range is run as its two halves in turn)
RECURSIVE InterpretRange(_, _, _, _, _)
InterpretRange(lstring, lo, hi, it, params) ==
    IF lo > hi THEN it
    ELSE IF lo = hi THEN InterpretSymbol(lstring[lo], it, params)
    ELSE LET mid == (lo + hi) \div 2
             left == InterpretRange(lstring, lo, mid, it, params)
         IN  IF Evaluated(left.rng) THEN InterpretRange(lstring, mid + 1, hi, left, params)
             ELSE left

\* LSystemGenerator::string_to_tree: the tree and the random source after it
string_to_tree(lstring, params, rng) ==
    LET it == InterpretRange(lstring, 1, Len(lstring), InterpreterStart(params, rng), params)
    IN  [tree |-> it.tree, rng |-> it.rng]

\* ---------------------------------------------------------- tree_structure

\* TreeStructure::get_leaf_branches / Branch::get_leaf_branches: the branches
\* without children below branch b, in depth-first order
RECURSIVE BranchLeaves(_, _)
RECURSIVE ChildrenLeaves(_, _, _)
BranchLeaves(tree, b) ==
    IF tree.all_branches[b].children = <<>> THEN <<b>>
    ELSE ChildrenLeaves(tree, tree.all_branches[b].children, 1)
ChildrenLeaves(tree, children, k) ==
    IF k > Len(children) THEN <<>>
    ELSE BranchLeaves(tree, children[k]) \o ChildrenLeaves(tree, children, k + 1)

\* a traversal that returns every branch
get_leaf_branchesEveryBranch(tree) == [i \in 1..Len(tree.all_branches) |-> i]

\* TreeStructure::get_leaf_branches
get_leaf_branches(tree) == IF tree.root # 0 THEN BranchLeaves(tree, tree.root) ELSE <<>>

\* LeafCluster::LeafCluster
LeafCluster(pos, sz, col) ==
    [position |-> pos, size |-> sz, color |-> col, leaf_positions |-> <<>>, shape |-> "Circle"]

\* Branch::bounding_box
BranchBox(b) ==
    LET half_thickness == Mul(b.thickness, 500)
    IN  Rect2D(Point2D(Min2(b.start_point.x, b.end_point.x) - half_thickness,
                       Min2(b.start_point.y, b.end_point.y) - half_thickness),
               Point2D(Max2(b.start_point.x, b.end_point.x) + half_thickness,
                       Max2(b.start_point.y, b.end_point.y) + half_thickness))

\* LeafCluster::bounding_box
ClusterBox(c) ==
    Rect2D(Point2D(c.position.x - c.size, c.position.y - c.size),
           Point2D(c.position.x + c.size, c.position.y + c.size))

\* the expansion step of calculate_bounding_box
ExpandBox(box, other) ==
    Rect2D(Point2D(Min2(box.min.x, other.min.x), Min2(box.min.y, other.min.y)),
           Point2D(Max2(box.max.x, other.max.x), Max2(box.max.y, other.max.y)))

\* calculate_bounding_box, the two loops: the boxes lo..hi of boxes are folded
\* into box in order (the range is run as its two halves in turn)
RECURSIVE FoldBoxes(_, _, _, _)
FoldBoxes(box, boxes, lo, hi) ==
    IF lo > hi THEN box
    ELSE IF lo = hi THEN ExpandBox(box, boxes[lo])
    ELSE LET mid == (lo + hi) \div 2
             left == FoldBoxes(box, boxes, lo, mid)
         IN  IF Evaluated(left.min.x) THEN FoldBoxes(left, boxes, mid + 1, hi) ELSE left

\* a calculate_bounding_box that leaves the box it finds
calculate_bounding_boxKept(tree) == tree

\* TreeStructure::calculate_bounding_box
calculate_bounding_box(tree) ==
    IF tree.all_branches = <<>>
    THEN [tree EXCEPT !.bounding_box = Rect2D(Point2D(0, 0), Point2D(0, 0))]
    ELSE [tree EXCEPT !.bounding_box =
            FoldBoxes(BranchBox(tree.all_branches[1]),
                      [k \in 1..Len(tree.all_branches) |-> BranchBox(tree.all_branches[k])]
                      \o [k \in 1..Len(tree.leaf_clusters) |-> ClusterBox(tree.leaf_clusters[k])],
                      1, Len(tree.all_branches) + Len(tree.leaf_clusters))]

\* TreeStructure::max_depth, the loop over the branches lo..hi (the range is
\* run as its two halves in turn)
RECURSIVE MaxDepthRange(_, _, _, _)
MaxDepthRange(branches, lo, hi, max_d) ==
    IF lo > hi THEN max_d
    ELSE IF lo = hi THEN Max2(max_d, branches[lo].depth_level)
    ELSE LET mid == (lo + hi) \div 2
             left == MaxDepthRange(branches, lo, mid, max_d)
         IN  IF Evaluated(left) THEN MaxDepthRange(branches, mid + 1, hi, left) ELSE left

\* TreeStructure::max_depth
max_depth(tree) == MaxDepthRange(tree.all_branches, 1, Len(tree.all_branches), 0)

\* TreeStructure::branch_count
branch_count(tree) == Len(tree.all_branches)

\* TreeStructure::leaf_cluster_count
leaf_cluster_count(tree) == Len(tree.leaf_clusters)

\* ----------------------------------------------------------- leaf clusters

\* generate_leaf_clusters, the shape switch
ClusterShape(type) ==
    CASE type = "Pine" -> "Spiky"
      [] type = "Palm" -> "Ellipse"
      [] type = "Willow" -> "Scattered"
      [] OTHER -> "Circle"

\* one jittered colour channel of generate_leaf_clusters
JitterChannel(channel, u, color_var) ==
    TruncToByte(Clamp(Mul(channel * One, One + next_float_range(u, -color_var, color_var)),
                      0, 255 * One))

\* generate_leaf_clusters, the body of the if: the cluster made for branch b
\* with the five draws that follow the density draw
MakeCluster(tree, b, r1) ==
    LET r2 == Advance(r1)
        r3 == Advance(r2)
        r4 == Advance(r3)
        r5 == Advance(r4)
        leaves == tree.parameters.leaves
        cluster_size == Mul(leaves.size_base,
                            One + next_float_range(FloatOf(r1), -leaves.size_variation,
                                                   leaves.size_variation))
        base_color == leaves.base_colors[next_int(FloatOf(r2), 0, 3) + 1]
        leaf_color == [ r |-> JitterChannel(base_color.r, FloatOf(r3), leaves.color_variation),
                        g |-> JitterChannel(base_color.g, FloatOf(r4), leaves.color_variation),
                        b |-> JitterChannel(base_color.b, FloatOf(r5), leaves.color_variation),
                        a |-> base_color.a ]
    IN  [ cluster |-> [LeafCluster(tree.all_branches[b].end_point, cluster_size, leaf_color)
                          EXCEPT !.shape = ClusterShape(tree.parameters.type)],
          rng |-> Advance(r5) ]

\* generate_leaf_clusters, the body of the loop for the leaf branch b; acc
\* holds the tree and the random source
PlaceLeaf(b, acc) ==
    IF FloatOf(acc.rng) < acc.tree.parameters.leaves.density
    THEN LET made == MakeCluster(acc.tree, b, Advance(acc.rng))
         IN  [ tree |-> [acc.tree EXCEPT !.leaf_clusters = Append(@, made.cluster)],
               rng |-> made.rng ]
    ELSE [acc EXCEPT !.rng = Advance(@)]

\* generate_leaf_clusters, the loop over the positions lo..hi of leaf_branches
\* (the range is run as its two halves in turn)
RECURSIVE PlaceLeaves(_, _, _, _)
PlaceLeaves(leaf_branches, lo, hi, acc) ==
    IF lo > hi THEN acc
    ELSE IF lo = hi THEN PlaceLeaf(leaf_branches[lo], acc)
    ELSE LET mid == (lo + hi) \div 2
             left == PlaceLeaves(leaf_branches, lo, mid, acc)
         IN  IF Evaluated(left.rng) THEN PlaceLeaves(leaf_branches, mid + 1, hi, left) ELSE left

\* TreeGenerator::generate_leaf_clusters
generate_leaf_clusters(tree, rng) ==
    IF tree.parameters.leaves.density <= 0
    THEN [tree |-> tree, rng |-> rng]
    ELSE LET leaf_branches == get_leaf_branches(tree)
         IN  PlaceLeaves(leaf_branches, 1, Len(leaf_branches), [tree |-> tree, rng |-> rng])

\* ------------------------------------------------------------ pixel_buffer

\* the cleared pixel 0x00000000
Transparent == <<0, 0, 0, 0>>

\* PixelBuffer(width, height) followed by clear()
PixelBuffer(width, height) == [width |-> width, height |-> height, px |-> <<>>]

\* a bounds test that also accepts the column and the row one past the end
containsInclusive(buffer, x, y) ==
    x >= 0 /\ x <= buffer.width /\ y >= 0 /\ y <= buffer.height

\* PixelBuffer::contains
contains(buffer, x, y) == x >= 0 /\ x < buffer.width /\ y >= 0 /\ y < buffer.height

\* the index operator() computes
PixelIndex(buffer, x, y) == y * buffer.width + x

\* data()[i]
PixelAt(buffer, i) == IF i \in DOMAIN buffer.px THEN buffer.px[i] ELSE Transparent

\* i >= n where i is a size_t parameter and n a size: an int argument below
\* zero is converted to a value above every size
NotBelow(i, n) == i < 0 \/ i >= n

\* PixelBuffer::at: the pixel, or std::out_of_range
at(buffer, x, y) ==
    IF NotBelow(x, buffer.width) \/ NotBelow(y, buffer.height)
    THEN [threw |-> TRUE, value |-> Transparent]
    ELSE [threw |-> FALSE, value |-> PixelAt(buffer, y * buffer.width + x)]

\* buffer(x, y) = color for every index of pixels
Plot(buffer, pixels, color) ==
    IF color = Transparent
    THEN [buffer EXCEPT !.px = [i \in (DOMAIN @) \ pixels |-> @[i]]]
    ELSE [buffer EXCEPT !.px = [i \in (DOMAIN @) \cup pixels |->
                                   IF i \in pixels THEN color ELSE @[i]]]

\* the buffer with the pixel f[i] at every index i of DOMAIN f
SetPixels(buffer, f) ==
    LET value(i) == IF i \in DOMAIN f THEN f[i] ELSE buffer.px[i]
    IN  [buffer EXCEPT !.px = [i \in { j \in (DOMAIN buffer.px) \cup (DOMAIN f) :
                                         value(j) # Transparent } |-> value(i)]]

\* a blend that keeps the background's alpha byte
blend_pixelsKeepAlpha(background, foreground) ==
    LET alpha == foreground[4]
        mix(c) == (background[c] * (255 - alpha) + foreground[c] * alpha) \div 255
    IN  IF alpha = 0 THEN background
        ELSE IF alpha = 255 THEN foreground
        ELSE <<mix(1), mix(2), mix(3), background[4]>>

\* PixelBuffer::blend_pixels: each channel is bg * (1 - a) + fg * a cut to a
\* byte, with a = alpha / 255 (computed here without the float rounding)
blend_pixels(background, foreground) ==
    LET alpha == foreground[4]
        mix(c) == (background[c] * (255 - alpha) + foreground[c] * alpha) \div 255
    IN  IF alpha = 0 THEN background
        ELSE IF alpha = 255 THEN foreground
        ELSE <<mix(1), mix(2), mix(3), 255>>

\* blit and blit_with_alpha: the source coordinates whose destination
\* coordinate passes if (contains(dest_x, dest_y))
BlitCovered(dest, source, position) ==
    { c \in (0..(source.width - 1)) \X (0..(source.height - 1)) :
        contains(dest, position.x + c[1], position.y + c[2]) }

\* the destination index of the source coordinate c
BlitIndex(dest, position, c) == PixelIndex(dest, position.x + c[1], position.y + c[2])

\* PixelBuffer::blit
blit(dest, source, position) ==
    LET covered == BlitCovered(dest, source, position)
        from(i) == CHOOSE c \in covered : BlitIndex(dest, position, c) = i
    IN  SetPixels(dest, [i \in { BlitIndex(dest, position, c) : c \in covered } |->
                            PixelAt(source, PixelIndex(source, from(i)[1], from(i)[2]))])

\* PixelBuffer::blit_with_alpha
blit_with_alpha(dest, source, position) ==
    LET covered == BlitCovered(dest, source, position)
        from(i) == CHOOSE c \in covered : BlitIndex(dest, position, c) = i
    IN  SetPixels(dest, [i \in { BlitIndex(dest, position, c) : c \in covered } |->
                            blend_pixels(PixelAt(dest, i),
                                PixelAt(source, PixelIndex(source, from(i)[1], from(i)[2])))])

\* ---------------------------------------------------------------- renderer

\* TreeRenderer::draw_line, the while loop: the indices written from (x, y) on
RECURSIVE LineLoop(_, _, _, _, _, _, _, _, _, _)
LineLoop(buffer, x, y, x1, y1, dx, dy, sx, sy, err) ==
    LET here == IF contains(buffer, x, y) THEN {PixelIndex(buffer, x, y)} ELSE {}
        e2 == 2 * err
        stepx == e2 > -dy
        stepy == e2 < dx
    IN  IF x = x1 /\ y = y1 THEN here
        ELSE here \cup LineLoop(buffer,
                                IF stepx THEN x + sx ELSE x,
                                IF stepy THEN y + sy ELSE y,
                                x1, y1, dx, dy, sx, sy,
                                err - (IF stepx THEN dy ELSE 0) + (IF stepy THEN dx ELSE 0))

\* TreeRenderer::draw_line: the indices it writes
draw_line(buffer, x0, y0, x1, y1) ==
    LET dx == Abs(x1 - x0)
        dy == Abs(y1 - y0)
        sx == IF x0 < x1 THEN 1 ELSE -1
        sy == IF y0 < y1 THEN 1 ELSE -1
    IN  LineLoop(buffer, x0, y0, x1, y1, dx, dy, sx, sy, dx - dy)

\* TreeRenderer::draw_thick_line
draw_thick_line(buffer, start, end, thickness, color) ==
    LET x0 == RoundToInt(start.x)
        y0 == RoundToInt(start.y)
        x1 == RoundToInt(end.x)
        y1 == RoundToInt(end.y)
        half_thickness == CeilToInt(Mul(thickness, 500))
    IN  Plot(buffer,
             UNION { draw_line(buffer, x0 + offset, y0, x1 + offset, y1)
                       \cup draw_line(buffer, x0, y0 + offset, x1, y1 + offset)
                     : offset \in (-half_thickness)..half_thickness },
             color)

\* TreeRenderer::draw_leaf_cluster
draw_leaf_cluster(buffer, cluster) ==
    LET center_x == RoundToInt(cluster.position.x)
        center_y == RoundToInt(cluster.position.y)
        radius == CeilToInt(cluster.size)
    IN  Plot(buffer,
             { PixelIndex(buffer, center_x + d[1], center_y + d[2])
               : d \in { e \in ((-radius)..radius) \X ((-radius)..radius)
                         : /\ e[1] * e[1] + e[2] * e[2] <= radius * radius
                           /\ contains(buffer, center_x + e[1], center_y + e[2]) } },
             to_rgba(cluster.color))

\* TreeRenderer::render_branches, the branches lo..hi in order (the range is
\* run as its two halves in turn)
RECURSIVE render_branches(_, _, _, _)
render_branches(buffer, tree, lo, hi) ==
    IF lo > hi THEN buffer
    ELSE IF lo = hi
    THEN LET b == tree.all_branches[lo]
         IN  draw_thick_line(buffer, b.start_point, b.end_point, b.thickness,
                             to_rgba(b.color))
    ELSE LET mid == (lo + hi) \div 2
             left == render_branches(buffer, tree, lo, mid)
         IN  IF Evaluated(left.width) THEN render_branches(left, tree, mid + 1, hi) ELSE left

\* TreeRenderer::render_leaves, the clusters lo..hi in order (the range is run
\* as its two halves in turn)
RECURSIVE render_leaves(_, _, _, _)
render_leaves(buffer, tree, lo, hi) ==
    IF lo > hi THEN buffer
    ELSE IF lo = hi THEN draw_leaf_cluster(buffer, tree.leaf_clusters[lo])
    ELSE LET mid == (lo + hi) \div 2
             left == render_leaves(buffer, tree, lo, mid)
         IN  IF Evaluated(left.width) THEN render_leaves(left, tree, mid + 1, hi) ELSE left

\* TreeRenderer::render
render(tree) ==
    render_leaves(
        render_branches(
            PixelBuffer(tree.parameters.canvas_width, tree.parameters.canvas_height),
            tree, 1, Len(tree.all_branches)),
        tree, 1, Len(tree.leaf_clusters))

\* a renderer that returns the cleared canvas
render_structureBlank(tree) ==
    PixelBuffer(tree.parameters.canvas_width, tree.parameters.canvas_height)

\* TreeGenerator::render_structure for PixelType = uint32_t
render_structure(tree) == render(tree)

\* --------------------------------------------------------------- generator

\* LSystemGenerator::setup_rules: rules_ after it
setup_rules(type) ==
    CASE type = "Oak" ->
           [ F |-> [length_factor |-> 1000, thickness_factor |-> 900, angle_change |-> 0],
             push |-> [branch_count |-> 2, angle_spread |-> 35000, thickness_split |-> 700],
             pop |-> [probability |-> 100] ]
      [] type = "Pine" ->
           [ F |-> [length_factor |-> 1200, thickness_factor |-> 800, angle_change |-> 0],
             push |-> [branch_count |-> 3, angle_spread |-> 25000, thickness_split |-> 600],
             pop |-> [probability |-> 200] ]
      [] type = "Palm" ->
           [ F |-> [length_factor |-> 1500, thickness_factor |-> 900, angle_change |-> 10000],
             push |-> [branch_count |-> 5, angle_spread |-> 60000, thickness_split |-> 800],
             pop |-> [probability |-> 800] ]
      [] OTHER ->
           [ F |-> [length_factor |-> 1000, thickness_factor |-> 900, angle_change |-> 0],
             push |-> [branch_count |-> 2, angle_spread |-> 30000, thickness_split |-> 700],
             pop |-> [probability |-> 100] ]

\* TreeGenerator::generate, the seed setup: random_device is the value
\* std::random_device{}() returns if it is asked
ActualSeed(params, random_device) ==
    IF params.random_seed = 0 THEN random_device ELSE params.random_seed

\* a generate that keeps the random source as the previous call left it
ReseedKeep(rng, actual_seed) == rng

\* TreeGenerator::generate, rng_ = Random(actual_seed)
Reseed(rng, actual_seed) == Random(actual_seed)

\* TreeMetadata as generate fills it (generation_time_ms, a clock reading, is left out)
TreeMetadata(tree, actual_seed) ==
    [ generation_id |-> tree.generation_id,
      branch_count |-> branch_count(tree),
      leaf_count |-> leaf_cluster_count(tree),
      max_depth |-> max_depth(tree),
      bounding_box |-> tree.bounding_box,
      random_seed |-> actual_seed ]

\* ----------------------------------------------------------- state machine

\* the parameter sets callers pass, before the seed is chosen
DeadDense == [PresetDead EXCEPT !.leaves.density = BoundedFloat01(900)]
BareOak == [PresetOak EXCEPT !.leaves.density = BoundedFloat01(0)]
CallerParams == {PresetOak, PresetPine, PresetPalm, PresetDead, DeadDense, BareOak}

\* parameter sets in which the caller changed fields of a preset: the branch
\* budget, the canvas (values outside [16,512] included) and the season
SmallBudgetPine == [PresetPine EXCEPT !.branches.max_branches = BoundedBranches(8)]
WidePalm == [PresetPalm EXCEPT !.canvas_width = BoundedCanvas(600),
                               !.canvas_height = BoundedCanvas(10)]
SmallOak == [PresetOak EXCEPT !.canvas_width = BoundedCanvas(40),
                              !.canvas_height = BoundedCanvas(24)]
WinterOak == [PresetOak EXCEPT !.season = "Winter"]
WinterPine == [PresetPine EXCEPT !.season = "Winter"]
WinterDead == [PresetDead EXCEPT !.season = "Winter"]
CustomParams == {SmallBudgetPine, WidePalm, SmallOak, WinterOak, WinterPine, WinterDead}

\* the parameter sets callers put into a batch: an explicit seed and a default one
BatchParams == { [PresetOak EXCEPT !.random_seed = 1],
                 [PresetPalm EXCEPT !.random_seed = 0] }

\* the sequences of at most n elements of S
RECURSIVE SeqsUpTo(_, _)
SeqsUpTo(S, n) ==
    IF n = 0 THEN {<<>>}
    ELSE LET shorter == SeqsUpTo(S, n - 1)
         IN  shorter \cup { Append(q, e) : q \in shorter, e \in S }

\* the parameter sets handed to generate_async and to the sequential calls they
\* are compared with
AsyncParams == { [PresetPalm EXCEPT !.random_seed = 1],
                 [PresetPalm EXCEPT !.random_seed = 3] }

\* the threads of the std::async tasks; each runs one task
Workers == {"t1", "t2"}

\* the parameter sets of the two-generator scenario: a preset, seed left at 0
TwoParams == {PresetOak}

NoResult == [kind |-> "none"]
NoBatch == [active |-> FALSE]

VARIABLES
    rng_,       \* TreeGenerator::rng_ of each generator instance
    lsystem_,   \* TreeGenerator::lsystem_ (its rules_) of each generator instance
    fresh,      \* per instance: no generation was started on it yet
    frames,     \* the generate calls in progress, per thread
    batch,      \* the generate_batch call in progress
    last,       \* what the most recent generate call returned (and the structure it built)
    ref,        \* an earlier returned result the caller kept
    batch_out,  \* what the most recent generate_batch call returned
    obj,        \* an object the caller made itself: a BoundedValue, a TreeParameters,
                \* a PixelBuffer or a TreeStructure
    out         \* what the most recent operation on obj returned or threw

vars == <<rng_, lsystem_, fresh, frames, batch, last, ref, batch_out, obj, out>>

Instances == DOMAIN rng_

\* TreeGenerator::TreeGenerator(seed): rng_(seed == 0 ? std::random_device{}() : seed)
Construct(seed, random_device) == Random(IF seed = 0 THEN random_device ELSE seed)

\* one generator instance, constructed with any seed
Init ==
    /\ \E seed \in 0..MaxSeed, rd \in 0..MaxSeed : rng_ = [g \in {1} |-> Construct(seed, rd)]
    /\ lsystem_ = [g \in {1} |-> <<>>]
    /\ fresh = [g \in {1} |-> TRUE]
    /\ frames = <<>>
    /\ batch = NoBatch
    /\ last = NoResult
    /\ ref = NoResult
    /\ batch_out = NoResult
    /\ obj = NoResult
    /\ out = NoResult

\* two generator instances constructed with the same non-zero seed
InitTwo ==
    /\ \E seed \in 1..MaxSeed : rng_ = [g \in {1, 2} |-> Construct(seed, 0)]
    /\ lsystem_ = [g \in {1, 2} |-> <<>>]
    /\ fresh = [g \in {1, 2} |-> TRUE]
    /\ frames = <<>>
    /\ batch = NoBatch
    /\ last = NoResult
    /\ ref = NoResult
    /\ batch_out = NoResult
    /\ obj = NoResult
    /\ out = NoResult

Idle == frames = <<>> /\ ~batch.active

\* the locals of a generate call once its parameters are normalized
Frame(g, kind, params, actual_seed) ==
    [ gen |-> g, kind |-> kind, params |-> params, pc |-> "string",
      actual_seed |-> actual_seed, normalized_params |-> validate(params),
      lstring |-> <<>>,
      iteration |-> 0, symbols |-> 0, it |-> NoResult, boxed |-> 0, drawn |-> 0,
      tree |-> TreeStructure(params),
      buffer |-> PixelBuffer(0, 0) ]

\* the values std::random_device{}() can return when generate asks it; it is
\* asked only for a zero random_seed
RandomDevice(params) == IF params.random_seed = 0 THEN 0..MaxSeed ELSE {0}

\* generate on thread t, from its entry to lsystem_.setup_rules: the seed setup
\* (rng_ = Random(actual_seed)), normalized_params.validate() and setup_rules
BeginGenerate(t, g, kind, params) ==
    \E rd \in RandomDevice(params) :
        LET actual_seed == ActualSeed(params, rd)
            frame == Frame(g, kind, params, actual_seed)
        IN  /\ rng_' = [rng_ EXCEPT ![g] = Reseed(@, actual_seed)]
            /\ lsystem_' = [lsystem_ EXCEPT ![g] = setup_rules(frame.normalized_params.type)]
            /\ frames' = [u \in (DOMAIN frames) \cup {t} |->
                            IF u = t THEN frame ELSE frames[u]]
            /\ fresh' = [fresh EXCEPT ![g] = FALSE]

\* a caller calls generator.generate(params) and waits for it; what the
\* previous calls returned is out of scope by then, unless the caller kept it
CallGenerate(g, params) ==
    /\ Idle
    /\ BeginGenerate("main", g, "generate", params)
    /\ last' = NoResult
    /\ batch_out' = NoResult
    /\ UNCHANGED <<batch, ref, obj, out>>

\* generate: lsystem_.generate_string(normalized_params, rng_)
StringStep(t) ==
    /\ t \in DOMAIN frames
    /\ frames[t].pc = "string"
    /\ LET made == generate_string(frames[t].normalized_params, rng_[frames[t].gen])
       IN  /\ frames' = [frames EXCEPT ![t].lstring = made.str, ![t].pc = "tree"]
           /\ rng_' = [rng_ EXCEPT ![frames[t].gen] = made.rng]
    /\ UNCHANGED <<lsystem_, fresh, batch, last, ref, batch_out, obj, out>>

\* generate: lsystem_.string_to_tree(lstring, normalized_params, rng_)
TreeStep(t) ==
    /\ t \in DOMAIN frames
    /\ frames[t].pc = "tree"
    /\ LET built == string_to_tree(frames[t].lstring, frames[t].normalized_params,
                                   rng_[frames[t].gen])
       IN  /\ frames' = [frames EXCEPT ![t].tree = built.tree, ![t].pc = "leaves"]
           /\ rng_' = [rng_ EXCEPT ![frames[t].gen] = built.rng]
    /\ UNCHANGED <<lsystem_, fresh, batch, last, ref, batch_out, obj, out>>

\* generate: generate_leaf_clusters(*tree_structure, rng_)
LeavesStep(t) ==
    /\ t \in DOMAIN frames
    /\ frames[t].pc = "leaves"
    /\ LET leafed == generate_leaf_clusters(frames[t].tree, rng_[frames[t].gen])
       IN  /\ frames' = [frames EXCEPT ![t].tree = leafed.tree, ![t].pc = "box"]
           /\ rng_' = [rng_ EXCEPT ![frames[t].gen] = leafed.rng]
    /\ UNCHANGED <<lsystem_, fresh, batch, last, ref, batch_out, obj, out>>

\* generate and generate_structure: tree_structure->calculate_bounding_box();
\* generate_structure returns after it
BoxStep(t) ==
    /\ t \in DOMAIN frames
    /\ frames[t].pc = "box"
    /\ frames' = [frames EXCEPT ![t].tree = calculate_bounding_box(@),
                                ![t].pc = IF frames[t].kind = "generate_structure"
                                          THEN "return" ELSE "render"]
    /\ UNCHANGED <<rng_, lsystem_, fresh, batch, last, ref, batch_out, obj, out>>

\* generate: renderer_.render(*tree_structure)
RenderStep(t) ==
    /\ t \in DOMAIN frames
    /\ frames[t].pc = "render"
    /\ frames' = [frames EXCEPT ![t].buffer = render(frames[t].tree), ![t].pc = "return"]
    /\ UNCHANGED <<rng_, lsystem_, fresh, batch, last, ref, batch_out, obj, out>>

\* the shared_ptr<Branch> references branch j holds to branch i: j's parent
\* link and the entries of j's children
HoldsReference(tree, j, i) ==
    \/ tree.all_branches[j].parent = i
    \/ \E k \in DOMAIN tree.all_branches[j].children :
          tree.all_branches[j].children[k] = i

\* the branches of alive that stay alive once nothing outside alive refers to
\* them: a branch no live branch refers to is destroyed, which releases the
\* references it held
RECURSIVE ReleaseBranches(_, _)
ReleaseBranches(tree, alive) ==
    LET unreferenced == { i \in alive : \A j \in alive : ~HoldsReference(tree, j, i) }
    IN  IF unreferenced = {} THEN alive
        ELSE ReleaseBranches(tree, alive \ unreferenced)

\* ~TreeStructure: root and all_branches drop their references; the branches
\* left alive afterwards
DestroyStructure(tree) == ReleaseBranches(tree, DOMAIN tree.all_branches)

\* what a generate call hands back: the pair {pixel_buffer, metadata}, with the
\* call's arguments, the structure it built, and the branches still alive after
\* the call destroyed that structure on its return
Returned(f) ==
    [ kind |-> f.kind, gen |-> f.gen, params |-> f.params,
      buffer |-> f.buffer,
      metadata |-> TreeMetadata(f.tree, f.actual_seed),
      structure |-> f.tree,
      leaked |-> DestroyStructure(f.tree) ]

\* generate returns to the caller that called it directly
ReturnStep(t) ==
    /\ t \in DOMAIN frames
    /\ frames[t].pc = "return"
    /\ frames[t].kind = "generate"
    /\ last' = Returned(frames[t])
    /\ frames' = [u \in (DOMAIN frames) \ {t} |-> frames[u]]
    /\ UNCHANGED <<rng_, lsystem_, fresh, batch, ref, batch_out, obj, out>>

\* the caller keeps the pair of the generate call that just returned
Remember ==
    /\ Idle
    /\ ref = NoResult
    /\ last # NoResult
    /\ last.kind = "generate"
    /\ ref' = [kind |-> last.kind, gen |-> last.gen, params |-> last.params,
               buffer |-> last.buffer, metadata |-> last.metadata]
    /\ UNCHANGED <<rng_, lsystem_, fresh, frames, batch, last, batch_out, obj, out>>

\* the steps of a generate call in progress on thread t
GenerateSteps(t) ==
    \/ StringStep(t)
    \/ TreeStep(t)
    \/ LeavesStep(t)
    \/ BoxStep(t)
    \/ RenderStep(t)

\* a loop that walks params_list from its end
BatchElementReversed(params_list, results) == params_list[Len(params_list) - Len(results)]

\* generate_batch: the element the range-for loop is at, once results holds
\* what the elements before it produced
BatchElement(params_list, results) == params_list[Len(results) + 1]

\* a caller calls generator.generate_batch(params_list): results is empty
CallBatch(g, params_list) ==
    /\ Idle
    /\ batch' = [active |-> TRUE, gen |-> g, params_list |-> params_list, results |-> <<>>]
    /\ last' = NoResult
    /\ batch_out' = NoResult
    /\ UNCHANGED <<rng_, lsystem_, fresh, frames, ref, obj, out>>

\* generate_batch, the loop body: generate(params) for the next element
BatchNext ==
    /\ batch.active
    /\ frames = <<>>
    /\ Len(batch.results) < Len(batch.params_list)
    /\ BeginGenerate("main", batch.gen, "batch",
                     BatchElement(batch.params_list, batch.results))
    /\ UNCHANGED <<batch, last, ref, batch_out, obj, out>>

\* generate_batch, results.emplace_back(generate(params)): the call returns
BatchCollect(t) ==
    /\ t \in DOMAIN frames
    /\ frames[t].pc = "return"
    /\ frames[t].kind = "batch"
    /\ batch' = [batch EXCEPT !.results = Append(@, Returned(frames[t]))]
    /\ frames' = [u \in (DOMAIN frames) \ {t} |-> frames[u]]
    /\ UNCHANGED <<rng_, lsystem_, fresh, last, ref, batch_out, obj, out>>

\* generate_batch, return results
BatchReturn ==
    /\ batch.active
    /\ frames = <<>>
    /\ Len(batch.results) = Len(batch.params_list)
    /\ batch_out' = [kind |-> "batch", params_list |-> batch.params_list,
                     results |-> batch.results]
    /\ batch' = NoBatch
    /\ UNCHANGED <<rng_, lsystem_, fresh, frames, last, ref, obj, out>>

\* generate_async(params): std::async starts a task on thread t that will call
\* generate(params) on this generator
LaunchAsync(t, g, params) ==
    /\ ~batch.active
    /\ "main" \notin DOMAIN frames
    /\ t \notin DOMAIN frames
    /\ frames' = [u \in (DOMAIN frames) \cup {t} |->
                    IF u = t THEN [gen |-> g, kind |-> "async", params |-> params,
                                   pc |-> "entry"]
                    ELSE frames[u]]
    /\ last' = NoResult
    /\ UNCHANGED <<rng_, lsystem_, fresh, batch, ref, batch_out, obj, out>>

\* the task on thread t enters generate
EnterAsync(t) ==
    /\ t \in DOMAIN frames
    /\ frames[t].pc = "entry"
    /\ BeginGenerate(t, frames[t].gen, "async", frames[t].params)
    /\ UNCHANGED <<batch, last, ref, batch_out, obj, out>>

\* future.get() on the task of thread t, which has finished; the thread is gone
FutureGet(t) ==
    /\ t \in DOMAIN frames
    /\ frames[t].pc = "return"
    /\ frames[t].kind = "async"
    /\ last' = Returned(frames[t])
    /\ frames' = [frames EXCEPT ![t] = [pc |-> "joined"]]
    /\ UNCHANGED <<rng_, lsystem_, fresh, batch, ref, batch_out, obj, out>>

\* one generator, used by one thread that calls generate
Next ==
    \/ \E g \in Instances, p \in CallerParams, s \in 0..MaxSeed :
          CallGenerate(g, [p EXCEPT !.random_seed = s])
    \/ GenerateSteps("main")
    \/ ReturnStep("main")
    \/ Remember

Spec == Init /\ [][Next]_vars

\* the [Min, Max] of the BoundedValue instantiations the parameters use
BoundedTypes ==
    { [T |-> "float", Min |-> 0, Max |-> One],
      [T |-> "float", Min |-> One \div 10, Max |-> 10 * One],
      [T |-> "float", Min |-> 0, Max |-> 360 * One],
      [T |-> "int", Min |-> 1, Max |-> 10],
      [T |-> "int", Min |-> 8, Max |-> 64],
      [T |-> "int", Min |-> 16, Max |-> 512] }

\* values a caller writes into a BoundedValue<T, Min, Max>: below, at, inside,
\* at and above the range, and for a float also NaN
WrittenValues(b) ==
    {b.Min - One \div 2, b.Min - 1, b.Min, (b.Min + b.Max) \div 2, b.Max, b.Max + 1,
     b.Max + One \div 2}
        \cup (IF b.T = "float" THEN {NaN} ELSE {})

GrowthStages == {"Seed", "Sapling", "Young", "Mature", "Old", "Dead"}

\* parameter objects a caller builds before calling validate() itself
ValidateInputs ==
    { [p EXCEPT !.type = t, !.growth_stage = gs, !.season = se,
                !.overall_scale = BoundedFloat10(sc)] :
        p \in {TreeParameters, PresetPalm}, t \in TreeTypes, gs \in GrowthStages,
        se \in Seasons, sc \in {One \div 10, One, 10 * One, NaN} }

\* BoundedValue<T, Min, Max> object(value)
ConstructBounded(b, value) ==
    /\ obj = NoResult
    /\ obj' = [kind |-> "bounded", type |-> b,
               value_ |-> BoundedValue(value, b.Min, b.Max)]
    /\ out' = [kind |-> "written", given |-> value]
    /\ UNCHANGED <<rng_, lsystem_, fresh, frames, batch, last, ref, batch_out>>

\* object = value (BoundedValue::operator=)
AssignBounded(value) ==
    /\ obj.kind = "bounded"
    /\ obj' = [obj EXCEPT !.value_ = BoundedValue(value, obj.type.Min, obj.type.Max)]
    /\ out' = [kind |-> "written", given |-> value]
    /\ UNCHANGED <<rng_, lsystem_, fresh, frames, batch, last, ref, batch_out>>

\* TreeParameters params with fields set by the caller
ConstructParams(params) ==
    /\ obj = NoResult
    /\ obj' = [kind |-> "params", value |-> params, validated |-> FALSE]
    /\ out' = NoResult
    /\ UNCHANGED <<rng_, lsystem_, fresh, frames, batch, last, ref, batch_out>>

\* params.validate()
ValidateParams ==
    /\ obj.kind = "params"
    /\ obj' = [obj EXCEPT !.value = validate(@), !.validated = TRUE]
    /\ out' = [kind |-> "validated", given |-> obj.value]
    /\ UNCHANGED <<rng_, lsystem_, fresh, frames, batch, last, ref, batch_out>>

\* the largest width and height of a surface the caller makes itself
MaxSide == 3

\* the colour the caller writes at index i of a surface
IndexColor(i) == <<i + 1, 0, 0, 255>>

\* PixelBuffer32 buffer(width, height)
ConstructBuffer(width, height) ==
    /\ obj = NoResult
    /\ obj' = [kind |-> "buffer", buffer |-> PixelBuffer(width, height)]
    /\ out' = NoResult
    /\ UNCHANGED <<rng_, lsystem_, fresh, frames, batch, last, ref, batch_out>>

\* buffer(x, y) = colour, the caller filling the surface pixel by pixel in
\* the order of the pixel array
WritePixel(x, y) ==
    /\ obj.kind = "buffer"
    /\ contains(obj.buffer, x, y)
    /\ PixelIndex(obj.buffer, x, y) = Cardinality(DOMAIN obj.buffer.px)
    /\ obj' = [obj EXCEPT !.buffer = Plot(@, {PixelIndex(@, x, y)},
                                          IndexColor(PixelIndex(@, x, y)))]
    /\ out' = NoResult
    /\ UNCHANGED <<rng_, lsystem_, fresh, frames, batch, last, ref, batch_out>>

\* buffer.contains(x, y)
CallContains(x, y) ==
    /\ obj.kind = "buffer"
    /\ out' = [kind |-> "contains", x |-> x, y |-> y, before |-> obj.buffer,
               value |-> contains(obj.buffer, x, y)]
    /\ UNCHANGED <<rng_, lsystem_, fresh, frames, batch, last, ref, batch_out, obj>>

\* buffer.at(x, y), read
CallAt(x, y) ==
    /\ obj.kind = "buffer"
    /\ out' = [kind |-> "at", x |-> x, y |-> y, before |-> obj.buffer,
               threw |-> at(obj.buffer, x, y).threw,
               value |-> at(obj.buffer, x, y).value]
    /\ UNCHANGED <<rng_, lsystem_, fresh, frames, batch, last, ref, batch_out, obj>>

\* a caller that makes one surface, fills it and asks about coordinates in
\* and around it
NextPixels ==
    \/ \E w \in 0..MaxSide, h \in 0..MaxSide : ConstructBuffer(w, h)
    \/ \E x \in 0..MaxSide, y \in 0..MaxSide : WritePixel(x, y)
    \/ \E x \in -1..(MaxSide + 1), y \in -1..(MaxSide + 1) : CallContains(x, y)
    \/ \E x \in -1..(MaxSide + 1), y \in -1..(MaxSide + 1) : CallAt(x, y)

SpecPixels == Init /\ [][NextPixels]_vars

\* parameters for callers of generate_structure: two with a canvas the caller
\* asked for, out of and inside [16, 512], and a preset
StructureParams == {WidePalm, SmallOak, PresetPine}

\* a caller calls generator.generate_structure(params) and waits for it; the
\* structure of an earlier call is dropped
CallGenerateStructure(g, params) ==
    /\ Idle
    /\ BeginGenerate("main", g, "generate_structure", params)
    /\ obj' = NoResult
    /\ out' = NoResult
    /\ UNCHANGED <<batch, last, ref, batch_out>>

\* generate_structure returns the unique_ptr<TreeStructure> to its caller
ReturnStructure(t) ==
    /\ t \in DOMAIN frames
    /\ frames[t].pc = "return"
    /\ frames[t].kind = "generate_structure"
    /\ obj' = [kind |-> "structure", gen |-> frames[t].gen, params |-> frames[t].params,
               tree |-> frames[t].tree]
    /\ out' = NoResult
    /\ frames' = [u \in (DOMAIN frames) \ {t} |-> frames[u]]
    /\ UNCHANGED <<rng_, lsystem_, fresh, batch, last, ref, batch_out>>

\* generator.render_structure(*structure); the caller keeps the surface, and
\* beside it the one an earlier call made of the same structure
CallRenderStructure(g) ==
    /\ Idle
    /\ obj.kind = "structure"
    /\ out' = [kind |-> "surface", before |-> obj.tree,
               buffer |-> render_structure(obj.tree),
               earlier |-> IF out.kind = "surface" THEN <<out.buffer>> ELSE <<>>]
    /\ UNCHANGED <<rng_, lsystem_, fresh, frames, batch, last, ref, batch_out, obj>>

\* one generator, asked for surfaces, for structures and for surfaces of the
\* structures
NextStructure ==
    \/ \E g \in Instances, p \in StructureParams, s \in 0..MaxSeed :
          CallGenerate(g, [p EXCEPT !.random_seed = s])
    \/ \E g \in Instances, p \in StructureParams, s \in 0..MaxSeed :
          CallGenerateStructure(g, [p EXCEPT !.random_seed = s])
    \/ GenerateSteps("main")
    \/ ReturnStep("main")
    \/ ReturnStructure("main")
    \/ \E g \in Instances : CallRenderStructure(g)

SpecStructure == Init /\ [][NextStructure]_vars

\* parameters of the structures a caller makes itself
EmptyParams == {SmallOak, WidePalm, PresetPine}

\* boxes a caller's structure holds before calculate_bounding_box
StaleBoxes ==
    { Rect2D(Point2D(0, 0), Point2D(0, 0)),
      Rect2D(Point2D(-5 * One, 0), Point2D(5 * One, 20 * One)) }

\* leaf clusters a caller puts into its structure
CallerClusters ==
    { LeafCluster(Point2D(0, 10 * One), 3 * One, Color(34, 139, 34)),
      LeafCluster(Point2D(4 * One, 4 * One), One, Color(255, 140, 0)) }

\* TreeStructure structure(params): no branches, no leaf clusters
ConstructStructure(params) ==
    /\ Idle
    /\ obj = NoResult
    /\ obj' = [kind |-> "structure", gen |-> 0, params |-> params,
               tree |-> TreeStructure(params)]
    /\ out' = NoResult
    /\ UNCHANGED <<rng_, lsystem_, fresh, frames, batch, last, ref, batch_out>>

\* structure.bounding_box = box
WriteBox(box) ==
    /\ obj.kind = "structure"
    /\ obj.tree.bounding_box # box
    /\ obj' = [obj EXCEPT !.tree.bounding_box = box]
    /\ out' = NoResult
    /\ UNCHANGED <<rng_, lsystem_, fresh, frames, batch, last, ref, batch_out>>

\* structure.leaf_clusters.push_back(cluster), once
AddCluster(cluster) ==
    /\ obj.kind = "structure"
    /\ obj.tree.leaf_clusters = <<>>
    /\ obj' = [obj EXCEPT !.tree.leaf_clusters = <<cluster>>]
    /\ out' = NoResult
    /\ UNCHANGED <<rng_, lsystem_, fresh, frames, batch, last, ref, batch_out>>

\* structure.calculate_bounding_box()
CallBoundingBox ==
    /\ obj.kind = "structure"
    /\ obj' = [obj EXCEPT !.tree = calculate_bounding_box(@)]
    /\ out' = [kind |-> "box", before |-> obj.tree]
    /\ UNCHANGED <<rng_, lsystem_, fresh, frames, batch, last, ref, batch_out>>

\* a caller that makes a structure without branches, computes its box and has
\* a generator render it
NextEmpty ==
    \/ \E p \in EmptyParams : ConstructStructure(p)
    \/ \E box \in StaleBoxes : WriteBox(box)
    \/ \E c \in CallerClusters : AddCluster(c)
    \/ CallBoundingBox
    \/ \E g \in Instances : CallRenderStructure(g)

SpecEmpty == Init /\ [][NextEmpty]_vars

\* one generator, constructed with a seed
InitLive ==
    /\ rng_ = [g \in {1} |-> Construct(1, 0)]
    /\ lsystem_ = [g \in {1} |-> <<>>]
    /\ fresh = [g \in {1} |-> TRUE]
    /\ frames = <<>>
    /\ batch = NoBatch
    /\ last = NoResult
    /\ ref = NoResult
    /\ batch_out = NoResult
    /\ obj = NoResult
    /\ out = NoResult

\* pixels of the surfaces a caller blits: clear, opaque, coloured with alpha
\* 0, and translucent
BlitPixels ==
    { Transparent, <<200, 100, 50, 255>>, <<40, 80, 120, 0>>, <<0, 0, 255, 128>> }

\* the surfaces of 2 x 1 pixels with those pixels
BlitSurfaces ==
    { SetPixels(PixelBuffer(2, 1), [i \in {0, 1} |-> IF i = 0 THEN a ELSE b]) :
        a \in BlitPixels, b \in BlitPixels }

\* the caller has a destination, a source and a position to blit at
MakeBlit(dest, source, position) ==
    /\ obj = NoResult
    /\ obj' = [kind |-> "blit", dest |-> dest, source |-> source, position |-> position]
    /\ out' = NoResult
    /\ UNCHANGED <<rng_, lsystem_, fresh, frames, batch, last, ref, batch_out>>

\* dest.blit_with_alpha(source, position): the destination after it and the
\* destination coordinates the unchecked accessor was called with
CallBlitWithAlpha ==
    /\ obj.kind = "blit"
    /\ out = NoResult
    /\ out' = [kind |-> "blit_with_alpha",
               dest |-> blit_with_alpha(obj.dest, obj.source, obj.position),
               accessed |-> { <<obj.position.x + c[1], obj.position.y + c[2]>> :
                               c \in BlitCovered(obj.dest, obj.source, obj.position) }]
    /\ UNCHANGED <<rng_, lsystem_, fresh, frames, batch, last, ref, batch_out, obj>>

\* dest.blit(source, position)
CallBlit ==
    /\ obj.kind = "blit"
    /\ out = NoResult
    /\ out' = [kind |-> "blit",
               dest |-> blit(obj.dest, obj.source, obj.position),
               accessed |-> { <<obj.position.x + c[1], obj.position.y + c[2]>> :
                               c \in BlitCovered(obj.dest, obj.source, obj.position) }]
    /\ UNCHANGED <<rng_, lsystem_, fresh, frames, batch, last, ref, batch_out, obj>>

\* a caller that blits one surface onto another, on it, across its edge or
\* beside it
NextBlit ==
    \/ \E dest \in BlitSurfaces, source \in BlitSurfaces, x \in -2..2, y \in 0..1 :
          MakeBlit(dest, source, Point2D(x, y))
    \/ CallBlitWithAlpha
    \/ CallBlit

SpecBlit == InitLive /\ [][NextBlit]_vars

\* the longest string a caller writes itself and hands to string_to_tree
MaxLen == 3

\* the symbols string_to_tree knows
Symbols == {"F", "[", "]", "+", "-"}

\* the strings over Symbols of length n
RECURSIVE StringsOfLen(_)
StringsOfLen(n) ==
    IF n = 0 THEN {<<>>}
    ELSE { Append(w, c) : w \in StringsOfLen(n - 1), c \in Symbols }

\* lsystem.string_to_tree(lstring, params, rng) on a string the caller wrote:
\* the interpreter's locals before the loop
CallStringToTree(lstring, params) ==
    /\ obj = NoResult
    /\ obj' = [kind |-> "interpreter", generated |-> FALSE, params |-> params,
               lstring |-> lstring, symbols |-> 0,
               it |-> InterpreterStart(params, Random(1))]
    /\ out' = NoResult
    /\ UNCHANGED <<rng_, lsystem_, fresh, frames, batch, last, ref, batch_out>>

\* lsystem.string_to_tree(lsystem.generate_string(params, rng), params, rng)
\* with rng = Random(seed)
CallStringToTreeGenerated(params, seed) ==
    /\ obj = NoResult
    /\ LET made == generate_string(validate(params), Random(seed))
       IN  obj' = [kind |-> "interpreter", generated |-> TRUE, params |-> validate(params),
                   lstring |-> made.str, symbols |-> 0,
                   it |-> InterpreterStart(validate(params), made.rng)]
    /\ out' = NoResult
    /\ UNCHANGED <<rng_, lsystem_, fresh, frames, batch, last, ref, batch_out>>

\* string_to_tree, one iteration of the loop; out keeps the symbol and the
\* locals it met
SymbolStep ==
    /\ obj.kind = "interpreter"
    /\ obj.symbols < Len(obj.lstring)
    /\ obj' = [obj EXCEPT !.it = InterpretSymbol(obj.lstring[obj.symbols + 1], @, obj.params),
                          !.symbols = @ + 1]
    /\ out' = [kind |-> "symbol", c |-> obj.lstring[obj.symbols + 1], before |-> obj.it]
    /\ UNCHANGED <<rng_, lsystem_, fresh, frames, batch, last, ref, batch_out>>

\* a caller of string_to_tree, with strings generate_string made and with
\* strings of its own
NextInterpret ==
    \/ \E n \in 0..MaxLen : \E w \in StringsOfLen(n) : CallStringToTree(w, PresetOak)
    \/ \E p \in {PresetOak, PresetPalm, PresetDead}, seed \in 1..MaxSeed :
          CallStringToTreeGenerated(p, seed)
    \/ SymbolStep

SpecInterpret == InitLive /\ [][NextInterpret]_vars

\* values of rng.next_float(): both ends of [0,1) and a point between
UnitDraws == {0, 300, One - 1}

\* parameters whose branch probability is 0, of every depth, and an oak of
\* depth 1 that may branch
ZeroParams ==
    { [p EXCEPT !.branches.branch_probability = BoundedFloat01(0),
                !.branches.max_depth = BoundedDepth(n)] :
        p \in {PresetOak, PresetPalm}, n \in 1..10 }
    \cup {[PresetOak EXCEPT !.branches.max_depth = BoundedDepth(1)]}

\* lsystem.generate_string(params, rng): result = "F" before the first pass
CallGenerateString(params) ==
    /\ obj = NoResult
    /\ obj' = [kind |-> "rewriting", params |-> params, iteration |-> 0,
               result |-> <<"F">>, next_result |-> <<>>, k |-> 0, rng |-> Random(1)]
    /\ out' = NoResult
    /\ UNCHANGED <<rng_, lsystem_, fresh, frames, batch, last, ref, batch_out>>

\* generate_string, the inner loop's body for the next character of result,
\* rng.next_float() returning u
RewriteDrawStep(u) ==
    /\ obj.kind = "rewriting"
    /\ obj.iteration < obj.params.branches.max_depth
    /\ obj.k < Len(obj.result)
    /\ LET acc == RewriteCharDraw(obj.result[obj.k + 1],
                                  [str |-> obj.next_result, rng |-> obj.rng],
                                  obj.params, u)
       IN  obj' = [obj EXCEPT !.next_result = acc.str, !.rng = acc.rng, !.k = @ + 1]
    /\ UNCHANGED <<rng_, lsystem_, fresh, frames, batch, last, ref, batch_out, out>>

\* generate_string, the end of a pass: result = next_result
RewritePassEnd ==
    /\ obj.kind = "rewriting"
    /\ obj.iteration < obj.params.branches.max_depth
    /\ obj.k = Len(obj.result)
    /\ obj' = [obj EXCEPT !.result = obj.next_result, !.next_result = <<>>,
                          !.k = 0, !.iteration = @ + 1]
    /\ UNCHANGED <<rng_, lsystem_, fresh, frames, batch, last, ref, batch_out, out>>

\* generate_string returns result and string_to_tree makes the structure of it
StringToTreeOfResult ==
    /\ obj.kind = "rewriting"
    /\ ~(obj.iteration < obj.params.branches.max_depth)
    /\ out = NoResult
    /\ out' = [kind |-> "tree", lstring |-> obj.result,
               tree |-> string_to_tree(obj.result, obj.params, obj.rng).tree]
    /\ UNCHANGED <<rng_, lsystem_, fresh, frames, batch, last, ref, batch_out, obj>>

\* a caller of generate_string under every stream of draws
NextZero ==
    \/ \E p \in ZeroParams : CallGenerateString(p)
    \/ \E u \in UnitDraws : RewriteDrawStep(u)
    \/ RewritePassEnd
    \/ StringToTreeOfResult

SpecZero == InitLive /\ [][NextZero]_vars

\* ------------------------------------------------- the loops, step by step

\* an oak whose string is rewritten twice, at the smallest scale and on the
\* smallest canvas, with the largest leaf density
ShallowOak ==
    [PresetOak EXCEPT !.branches.max_depth = BoundedDepth(2),
                      !.leaves.density = BoundedFloat01(One),
                      !.overall_scale = BoundedFloat10(One \div 10),
                      !.canvas_width = BoundedCanvas(16),
                      !.canvas_height = BoundedCanvas(16)]

\* parameters of the runs whose loops are followed iteration by iteration
LiveParams == {ShallowOak}

\* generate_string, one iteration of the outer loop: a pass over result
RewriteStep(t) ==
    /\ t \in DOMAIN frames
    /\ frames[t].pc = "string"
    /\ frames[t].iteration < frames[t].normalized_params.branches.max_depth
    /\ LET result == IF frames[t].iteration = 0 THEN <<"F">> ELSE frames[t].lstring
           pass == RewritePass(result, 1, Len(result),
                               [str |-> <<>>, rng |-> rng_[frames[t].gen]],
                               frames[t].normalized_params)
       IN  /\ frames' = [frames EXCEPT ![t].lstring = pass.str, ![t].iteration = @ + 1]
           /\ rng_' = [rng_ EXCEPT ![frames[t].gen] = pass.rng]
    /\ UNCHANGED <<lsystem_, fresh, batch, last, ref, batch_out, obj, out>>

\* generate_string returns result; string_to_tree sets up its locals
RewriteEnd(t) ==
    /\ t \in DOMAIN frames
    /\ frames[t].pc = "string"
    /\ ~(frames[t].iteration < frames[t].normalized_params.branches.max_depth)
    /\ frames' = [frames EXCEPT ![t].pc = "tree",
                                ![t].it = InterpreterStart(frames[t].normalized_params,
                                                           rng_[frames[t].gen])]
    /\ UNCHANGED <<rng_, lsystem_, fresh, batch, last, ref, batch_out, obj, out>>

\* string_to_tree, one iteration of the loop over lstring
InterpretStep(t) ==
    /\ t \in DOMAIN frames
    /\ frames[t].pc = "tree"
    /\ frames[t].symbols < Len(frames[t].lstring)
    /\ frames' = [frames EXCEPT
           ![t].it = InterpretSymbol(frames[t].lstring[frames[t].symbols + 1], @,
                                     frames[t].normalized_params),
           ![t].symbols = @ + 1]
    /\ UNCHANGED <<rng_, lsystem_, fresh, batch, last, ref, batch_out, obj, out>>

\* string_to_tree returns tree
InterpretEnd(t) ==
    /\ t \in DOMAIN frames
    /\ frames[t].pc = "tree"
    /\ ~(frames[t].symbols < Len(frames[t].lstring))
    /\ frames' = [frames EXCEPT ![t].tree = frames[t].it.tree, ![t].pc = "leaves"]
    /\ rng_' = [rng_ EXCEPT ![frames[t].gen] = frames[t].it.rng]
    /\ UNCHANGED <<lsystem_, fresh, batch, last, ref, batch_out, obj, out>>

\* calculate_bounding_box, one iteration of its loops: the box of the next
\* branch, or after the branches of the next cluster, is folded in; the first
\* iteration starts from the first branch's box
BoxLoopStep(t) ==
    /\ t \in DOMAIN frames
    /\ frames[t].pc = "box"
    /\ frames[t].tree.all_branches # <<>>
    /\ frames[t].boxed < Len(frames[t].tree.all_branches) + Len(frames[t].tree.leaf_clusters)
    /\ LET tree == frames[t].tree
           k == frames[t].boxed + 1
           box == IF frames[t].boxed = 0 THEN BranchBox(tree.all_branches[1])
                  ELSE tree.bounding_box
           other == IF k <= Len(tree.all_branches) THEN BranchBox(tree.all_branches[k])
                    ELSE ClusterBox(tree.leaf_clusters[k - Len(tree.all_branches)])
       IN  frames' = [frames EXCEPT ![t].tree.bounding_box = ExpandBox(box, other),
                                    ![t].boxed = @ + 1]
    /\ UNCHANGED <<rng_, lsystem_, fresh, batch, last, ref, batch_out, obj, out>>

\* calculate_bounding_box returns: at once with the box at the origin when
\* there is no branch, else after its loops
BoxLoopEnd(t) ==
    /\ t \in DOMAIN frames
    /\ frames[t].pc = "box"
    /\ \/ frames[t].tree.all_branches = <<>>
       \/ frames[t].boxed = Len(frames[t].tree.all_branches) + Len(frames[t].tree.leaf_clusters)
    /\ frames' = [frames EXCEPT
           ![t].tree.bounding_box = IF frames[t].tree.all_branches = <<>>
                                    THEN Rect2D(Point2D(0, 0), Point2D(0, 0)) ELSE @,
           ![t].pc = IF frames[t].kind = "generate_structure" THEN "return" ELSE "render"]
    /\ UNCHANGED <<rng_, lsystem_, fresh, batch, last, ref, batch_out, obj, out>>

\* TreeRenderer::render: the buffer after the first frames[t].drawn draw calls,
\* which is the cleared canvas before the first
RenderBuffer(t) ==
    IF frames[t].drawn = 0
    THEN PixelBuffer(frames[t].tree.parameters.canvas_width,
                     frames[t].tree.parameters.canvas_height)
    ELSE frames[t].buffer

\* render_branches, one iteration: draw_thick_line for the next branch
RenderBranchStep(t) ==
    /\ t \in DOMAIN frames
    /\ frames[t].pc = "render"
    /\ frames[t].drawn < Len(frames[t].tree.all_branches)
    /\ LET b == frames[t].tree.all_branches[frames[t].drawn + 1]
       IN  frames' = [frames EXCEPT
               ![t].buffer = draw_thick_line(RenderBuffer(t), b.start_point, b.end_point,
                                             b.thickness, to_rgba(b.color)),
               ![t].drawn = @ + 1]
    /\ UNCHANGED <<rng_, lsystem_, fresh, batch, last, ref, batch_out, obj, out>>

\* render_leaves, one iteration: draw_leaf_cluster for the next cluster
RenderLeafStep(t) ==
    /\ t \in DOMAIN frames
    /\ frames[t].pc = "render"
    /\ frames[t].drawn >= Len(frames[t].tree.all_branches)
    /\ frames[t].drawn < Len(frames[t].tree.all_branches) + Len(frames[t].tree.leaf_clusters)
    /\ frames' = [frames EXCEPT
           ![t].buffer = draw_leaf_cluster(RenderBuffer(t),
               frames[t].tree.leaf_clusters[frames[t].drawn + 1
                                            - Len(frames[t].tree.all_branches)]),
           ![t].drawn = @ + 1]
    /\ UNCHANGED <<rng_, lsystem_, fresh, batch, last, ref, batch_out, obj, out>>

\* render returns buffer
RenderEnd(t) ==
    /\ t \in DOMAIN frames
    /\ frames[t].pc = "render"
    /\ frames[t].drawn = Len(frames[t].tree.all_branches) + Len(frames[t].tree.leaf_clusters)
    /\ frames' = [frames EXCEPT ![t].buffer = RenderBuffer(t), ![t].pc = "return"]
    /\ UNCHANGED <<rng_, lsystem_, fresh, batch, last, ref, batch_out, obj, out>>

\* the statements of a generate call, its string loops and its drawing loops
\* iteration by iteration
LiveSteps(t) ==
    \/ RewriteStep(t)
    \/ RewriteEnd(t)
    \/ InterpretStep(t)
    \/ InterpretEnd(t)
    \/ LeavesStep(t)
    \/ BoxLoopStep(t)
    \/ BoxLoopEnd(t)
    \/ RenderBranchStep(t)
    \/ RenderLeafStep(t)
    \/ RenderEnd(t)

\* the largest coordinate, and the largest leaf radius, of the rasterizer
\* loops that are followed iteration by iteration
MaxCoord == 2

\* the coordinates of line end points and cluster centres: on the surface
\* and off it on every side
Coords == -1..MaxCoord

\* the surface the followed loops draw on
LoopSurface == PixelBuffer(MaxCoord, MaxCoord - 1)

\* draw_line(buffer, x0, y0, x1, y1, color): the locals before the loop
CallDrawLine(x0, y0, x1, y1) ==
    /\ Idle
    /\ obj = NoResult
    /\ obj' = [kind |-> "line", buffer |-> LoopSurface, written |-> {},
               x0 |-> x0, y0 |-> y0, x1 |-> x1, y1 |-> y1,
               dx |-> Abs(x1 - x0), dy |-> Abs(y1 - y0),
               sx |-> IF x0 < x1 THEN 1 ELSE -1,
               sy |-> IF y0 < y1 THEN 1 ELSE -1,
               err |-> Abs(x1 - x0) - Abs(y1 - y0),
               x |-> x0, y |-> y0]
    /\ last' = NoResult
    /\ out' = NoResult
    /\ UNCHANGED <<rng_, lsystem_, fresh, frames, batch, ref, batch_out>>

\* a line loop that never moves along y
LineAdvanceAlongX(l) ==
    LET e2 == 2 * l.err
    IN  [l EXCEPT !.x = IF e2 > -l.dy THEN @ + l.sx ELSE @,
                  !.err = @ - (IF e2 > -l.dy THEN l.dy ELSE 0)]

\* draw_line, the end of the loop body: the error term and the next point
LineAdvance(l) ==
    LET e2 == 2 * l.err
        stepx == e2 > -l.dy
        stepy == e2 < l.dx
    IN  [l EXCEPT !.x = IF stepx THEN @ + l.sx ELSE @,
                  !.y = IF stepy THEN @ + l.sy ELSE @,
                  !.err = @ - (IF stepx THEN l.dy ELSE 0) + (IF stepy THEN l.dx ELSE 0)]

\* buffer(x, y) = color without the test
UnguardedWrite(l, x, y) == [l EXCEPT !.written = @ \cup {<<x, y>>}]

\* if (buffer.contains(x, y)) buffer(x, y) = color: the coordinates the
\* unchecked accessor is called with
GuardedWrite(l, x, y) ==
    IF contains(l.buffer, x, y) THEN [l EXCEPT !.written = @ \cup {<<x, y>>}] ELSE l

\* draw_line, one iteration of while (true)
LineStep ==
    /\ obj.kind = "line"
    /\ LET l == GuardedWrite(obj, obj.x, obj.y)
       IN  obj' = IF l.x = l.x1 /\ l.y = l.y1
                  THEN [l EXCEPT !.kind = "line_done"]
                  ELSE LineAdvance(l)
    /\ UNCHANGED <<rng_, lsystem_, fresh, frames, batch, last, ref, batch_out, out>>

\* draw_leaf_cluster(buffer, cluster): the locals before the loops
CallDrawLeafCluster(center_x, center_y, radius) ==
    /\ Idle
    /\ obj = NoResult
    /\ obj' = [kind |-> "disc", buffer |-> LoopSurface, written |-> {},
               center_x |-> center_x, center_y |-> center_y, radius |-> radius,
               x |-> -radius, y |-> -radius]
    /\ last' = NoResult
    /\ out' = NoResult
    /\ UNCHANGED <<rng_, lsystem_, fresh, frames, batch, ref, batch_out>>

\* draw_leaf_cluster, one iteration of the inner loop, with the step of the
\* outer loop when the row ends
DiscStep ==
    /\ obj.kind = "disc"
    /\ LET d == IF obj.x * obj.x + obj.y * obj.y <= obj.radius * obj.radius
                THEN GuardedWrite(obj, obj.center_x + obj.x, obj.center_y + obj.y)
                ELSE obj
       IN  obj' = IF d.x < d.radius THEN [d EXCEPT !.x = @ + 1]
                  ELSE IF d.y < d.radius THEN [d EXCEPT !.x = -d.radius, !.y = @ + 1]
                  ELSE [d EXCEPT !.kind = "disc_done"]
    /\ UNCHANGED <<rng_, lsystem_, fresh, frames, batch, last, ref, batch_out, out>>

\* one thread that calls generate any number of times, or, with a renderer of
\* its own and no generator used, draw_line or draw_leaf_cluster once, each
\* call run to its end
NextLive ==
    \/ \E g \in Instances, p \in LiveParams, s \in 0..MaxSeed :
          obj = NoResult /\ CallGenerate(g, [p EXCEPT !.random_seed = s])
    \/ LiveSteps("main")
    \/ ReturnStep("main")
    \/ \E x0 \in Coords, y0 \in Coords, x1 \in Coords, y1 \in Coords :
          (\A g \in Instances : fresh[g]) /\ CallDrawLine(x0, y0, x1, y1)
    \/ LineStep
    \/ \E cx \in Coords, cy \in Coords, r \in 0..MaxCoord :
          (\A g \in Instances : fresh[g]) /\ CallDrawLeafCluster(cx, cy, r)
    \/ DiscStep

\* the thread is never stopped for good: a call that can take its next step
\* takes it
SpecLive ==
    /\ InitLive
    /\ [][NextLive]_vars
    /\ WF_vars(LiveSteps("main") \/ ReturnStep("main"))
    /\ WF_vars(LineStep)
    /\ WF_vars(DiscStep)

\* draw_line from its locals l to the end of its loop
RECURSIVE LineRun(_)
LineRun(l) ==
    LET w == GuardedWrite(l, l.x, l.y)
    IN  IF w.x = w.x1 /\ w.y = w.y1 THEN w ELSE LineRun(LineAdvance(w))

\* the locals of draw_line(buffer, x0, y0, x1, y1, color) before the loop,
\* on a surface where written was written before
LineLocals(buffer, written, x0, y0, x1, y1) ==
    [kind |-> "line", buffer |-> buffer, written |-> written,
     x0 |-> x0, y0 |-> y0, x1 |-> x1, y1 |-> y1,
     dx |-> Abs(x1 - x0), dy |-> Abs(y1 - y0),
     sx |-> IF x0 < x1 THEN 1 ELSE -1,
     sy |-> IF y0 < y1 THEN 1 ELSE -1,
     err |-> Abs(x1 - x0) - Abs(y1 - y0),
     x |-> x0, y |-> y0]

\* draw_thick_line(buffer, start, end, thickness, color): the coordinates the
\* two lines of every offset write
CallDrawThickLine(start, end, thickness) ==
    /\ Idle
    /\ obj = NoResult
    /\ LET x0 == RoundToInt(start.x)
           y0 == RoundToInt(start.y)
           x1 == RoundToInt(end.x)
           y1 == RoundToInt(end.y)
           half_thickness == CeilToInt(Mul(thickness, 500))
       IN  obj' = [kind |-> "thick_done", buffer |-> LoopSurface,
                   x0 |-> x0, y0 |-> y0, x1 |-> x1, y1 |-> y1,
                   half_thickness |-> half_thickness,
                   written |-> UNION {
                       LineRun(LineLocals(LoopSurface, {}, x0 + offset, y0,
                                          x1 + offset, y1)).written
                       \cup LineRun(LineLocals(LoopSurface, {}, x0, y0 + offset,
                                               x1, y1 + offset)).written
                       : offset \in (-half_thickness)..half_thickness }]
    /\ last' = NoResult
    /\ out' = NoResult
    /\ UNCHANGED <<rng_, lsystem_, fresh, frames, batch, ref, batch_out>>

\* a caller of every drawing and blitting operation, with geometry on the
\* surface, across its edges and beside it
NextRaster ==
    \/ \E x0 \in Coords, y0 \in Coords, x1 \in Coords, y1 \in Coords :
          CallDrawLine(x0, y0, x1, y1)
    \/ LineStep
    \/ \E cx \in Coords, cy \in Coords, r \in 0..MaxCoord : CallDrawLeafCluster(cx, cy, r)
    \/ DiscStep
    \/ \E x0 \in Coords, y0 \in Coords, x1 \in Coords, y1 \in Coords,
          thickness \in {0, One, 3 * One} :
          CallDrawThickLine(Point2D(x0 * One, y0 * One), Point2D(x1 * One, y1 * One),
                            thickness)
    \/ \E dest \in BlitSurfaces, source \in BlitSurfaces, x \in -2..2, y \in 0..1 :
          MakeBlit(dest, source, Point2D(x, y))
    \/ CallBlitWithAlpha
    \/ CallBlit

SpecRaster == InitLive /\ [][NextRaster]_vars

\* a caller asks for the structure of a small oak-like tree of every
\* archetype, with the oak's leaf density and with the largest
NextLeaves ==
    \/ \E g \in Instances, type \in TreeTypes, s \in 1..MaxSeed,
          density \in {SmallOak.leaves.density, One} :
          CallGenerateStructure(g, [SmallOak EXCEPT !.type = type, !.random_seed = s,
                                                    !.leaves.density = BoundedFloat01(density)])
    \/ StringStep("main")
    \/ TreeStep("main")
    \/ LeavesStep("main")
    \/ BoxStep("main")
    \/ ReturnStructure("main")

SpecLeaves == InitLive /\ [][NextLeaves]_vars

\* a caller that makes one bounded value or one parameter object and writes to it
NextBounded ==
    \/ \E b \in BoundedTypes : \E v \in WrittenValues(b) : ConstructBounded(b, v)
    \/ obj.kind = "bounded" /\ \E v \in WrittenValues(obj.type) : AssignBounded(v)
    \/ \E p \in ValidateInputs : ConstructParams(p)
    \/ ValidateParams

SpecBounded == Init /\ [][NextBounded]_vars

\* one generator, called with presets and with parameters the caller changed
NextCustom ==
    \/ \E g \in Instances, p \in CallerParams \cup CustomParams, s \in 0..MaxSeed :
          CallGenerate(g, [p EXCEPT !.random_seed = s])
    \/ GenerateSteps("main")
    \/ ReturnStep("main")

SpecCustom == Init /\ [][NextCustom]_vars

\* one generator, used by one thread that calls generate and generate_batch
NextBatch ==
    \/ \E g \in Instances, p \in BatchParams : CallGenerate(g, p)
    \/ GenerateSteps("main")
    \/ ReturnStep("main")
    \/ Remember
    \/ \E g \in Instances, l \in SeqsUpTo(BatchParams, MaxBatch) : CallBatch(g, l)
    \/ BatchNext
    \/ BatchCollect("main")
    \/ BatchReturn

SpecBatch == Init /\ [][NextBatch]_vars

\* two generators, each called once with a preset whose seed is left at 0
NextTwo ==
    \/ \E g \in Instances, p \in TwoParams : fresh[g] /\ CallGenerate(g, p)
    \/ GenerateSteps("main")
    \/ ReturnStep("main")
    \/ Remember

SpecTwo == InitTwo /\ [][NextTwo]_vars

\* one generator shared by the tasks generate_async starts; the caller also
\* calls generate itself while no task is in flight
NextAsync ==
    \/ \E g \in Instances, p \in AsyncParams : CallGenerate(g, p)
    \/ GenerateSteps("main")
    \/ ReturnStep("main")
    \/ Remember
    \/ \E t \in Workers, g \in Instances, p \in AsyncParams : LaunchAsync(t, g, p)
    \/ \E t \in Workers : EnterAsync(t) \/ GenerateSteps(t) \/ FutureGet(t)

SpecAsync == Init /\ [][NextAsync]_vars

\* ------------------------------------------------------------------ claims

\* what two results are compared on: the metadata counts and the pixel data
Outcome(r) ==
    [ branch_count |-> r.metadata.branch_count,
      leaf_count |-> r.metadata.leaf_count,
      max_depth |-> r.metadata.max_depth,
      width |-> r.buffer.width, height |-> r.buffer.height,
      pixels |-> r.buffer.px ]

\* a result of generate(TreePresets::X()) with any seed put into the preset
OfPreset(r, presets) == [r.params EXCEPT !.random_seed = 0] \in presets

\* C1: two generate calls on one generator with the same parameters and the
\* same non-zero random_seed return the same branch count, leaf count, max
\* depth and pixels, whatever the generator was constructed with and whatever
\* was generated in between
C1_ExplicitSeedDeterminism ==
    ( /\ ref # NoResult
      /\ last # NoResult
      /\ last.kind = "generate"
      /\ ref.gen = last.gen
      /\ ref.params = last.params
      /\ last.params.random_seed # 0 )
    => Outcome(ref) = Outcome(last)

\* two returned calls with the same explicit seed, of a tree that took random
\* draws in every stage
C1_Witness ==
    /\ ref # NoResult
    /\ last # NoResult
    /\ last.kind = "generate"
    /\ ref.params = last.params
    /\ last.params.random_seed # 0
    /\ last.metadata.branch_count > 1
    /\ last.metadata.leaf_count > 0

\* C2: two generators constructed with the same non-zero seed, each called
\* with the same parameters whose random_seed is 0, return the same
\* branch count, leaf count, max depth and pixels
C2_SameConstructorSeed ==
    ( /\ ref # NoResult
      /\ last # NoResult
      /\ last.kind = "generate"
      /\ ref.gen # last.gen
      /\ ref.params = last.params
      /\ last.params.random_seed = 0 )
    => Outcome(ref) = Outcome(last)

\* a batch element and an individual call agree on counts, pixels and seed
SameAsIndividual(individual, element) ==
    /\ Outcome(individual) = Outcome(element)
    /\ individual.metadata.random_seed = element.metadata.random_seed

\* C3 as stated: generate_batch returns one result per element, in input
\* order, each the same as an individual generate call with that element
C3_BatchMatchesIndividual ==
    batch_out # NoResult =>
        /\ Len(batch_out.results) = Len(batch_out.params_list)
        /\ \A i \in DOMAIN batch_out.results :
              /\ batch_out.results[i].params = batch_out.params_list[i]
              /\ (ref # NoResult /\ ref.params = batch_out.params_list[i])
                    => SameAsIndividual(ref, batch_out.results[i])

\* C3 amended: generate_batch returns one result per element, in input order,
\* and each element with a non-zero random_seed gives the same result as an
\* individual generate call with that element
C3_BatchMatchesExplicitSeed ==
    batch_out # NoResult =>
        /\ Len(batch_out.results) = Len(batch_out.params_list)
        /\ \A i \in DOMAIN batch_out.results :
              /\ batch_out.results[i].params = batch_out.params_list[i]
              /\ ( /\ ref # NoResult
                   /\ ref.params = batch_out.params_list[i]
                   /\ ref.params.random_seed # 0 )
                    => SameAsIndividual(ref, batch_out.results[i])

\* a batch of two different elements returned, the second of which has an
\* explicit seed and was also generated individually
C3_Witness ==
    /\ batch_out # NoResult
    /\ Len(batch_out.results) = 2
    /\ batch_out.params_list[1] # batch_out.params_list[2]
    /\ ref # NoResult
    /\ ref.params = batch_out.params_list[2]
    /\ ref.params.random_seed # 0
    /\ ref.metadata.branch_count > 1

\* C4: a generation started by generate_async on a shared generator returns
\* what a sequential generate with the same non-zero seed returns
C4_AsyncOwnSequence ==
    ( /\ ref # NoResult
      /\ last # NoResult
      /\ last.kind = "async"
      /\ ref.params = last.params
      /\ last.params.random_seed # 0 )
    => Outcome(ref) = Outcome(last)

\* C5: the seed reported in the metadata is never 0, and is the parameters'
\* random_seed when that is non-zero
C5_ReportedSeedNeverZero ==
    last # NoResult =>
        /\ last.metadata.random_seed # 0
        /\ last.params.random_seed # 0 => last.metadata.random_seed = last.params.random_seed

\* C6: parameters of type Dead, whatever density the caller set, and any
\* parameters whose normalized leaf density is 0 give leaf_count 0
C6_NoDensityNoLeaves ==
    ( /\ last # NoResult
      /\ \/ last.params.type = "Dead"
         \/ validate(last.params).leaves.density = 0 )
    => last.metadata.leaf_count = 0

\* a Dead tree whose caller asked for dense leaves, with several leaf draws due
C6_Witness ==
    /\ last # NoResult
    /\ last.params.type = "Dead"
    /\ last.params.leaves.density > 0
    /\ last.metadata.branch_count > 1
    /\ last.metadata.leaf_count = 0

\* C7: the oak, pine and palm presets always give leaf_count > 0
C7_LivePresetsHaveLeaves ==
    (last # NoResult /\ OfPreset(last, {PresetOak, PresetPine, PresetPalm}))
    => last.metadata.leaf_count > 0

\* C8: every generation creates at least one branch, and the root is the first
\* branch of the flat list
C8_RootIsFirstBranch ==
    last # NoResult =>
        /\ last.metadata.branch_count > 0
        /\ last.metadata.branch_count = Len(last.structure.all_branches)
        /\ last.structure.root = 1

\* a structure of several branches
C8_Witness ==
    /\ last # NoResult
    /\ Len(last.structure.all_branches) > 2
    /\ last.structure.root = 1

\* C9: the four presets always report max_depth > 0
C9_PresetsHaveDepth ==
    (last # NoResult /\ OfPreset(last, {PresetOak, PresetPine, PresetPalm, PresetDead}))
    => last.metadata.max_depth > 0

\* the places where branch i is listed as a child: <<branch, position>>
ChildSlots(tree, i) ==
    { slot \in UNION { {<<j, k>> : k \in DOMAIN tree.all_branches[j].children} :
                          j \in DOMAIN tree.all_branches } :
        tree.all_branches[slot[1]].children[slot[2]] = i }

\* C10: the root has no parent and is nobody's child; every other branch has a
\* parent and is listed once, in the children of that parent
C10_OneParent ==
    last # NoResult =>
        \A i \in DOMAIN last.structure.all_branches :
            LET branch == last.structure.all_branches[i]
                slots == ChildSlots(last.structure, i)
            IN  IF i = last.structure.root
                THEN branch.parent = 0 /\ slots = {}
                ELSE /\ branch.parent \in DOMAIN last.structure.all_branches
                     /\ Cardinality(slots) = 1
                     /\ \A slot \in slots : slot[1] = branch.parent

\* a structure with branches emitted after a pop-state symbol
C10_Witness ==
    /\ last # NoResult
    /\ Len(last.structure.all_branches) > 4
    /\ \E i \in DOMAIN last.structure.all_branches :
          last.structure.all_branches[i].parent # 0

\* C11: in every generated structure a child branch's depth level is its
\* parent's depth level plus one
C11_ChildDepthIsParentPlusOne ==
    last # NoResult =>
        \A i \in DOMAIN last.structure.all_branches :
            LET branch == last.structure.all_branches[i]
            IN  branch.parent # 0 =>
                    branch.depth_level =
                        last.structure.all_branches[branch.parent].depth_level + 1

\* C12: in every generated structure no child branch is thicker than its
\* parent, also when the child was emitted after a pop-state symbol
C12_ThicknessNonIncreasing ==
    last # NoResult =>
        \A i \in DOMAIN last.structure.all_branches :
            LET branch == last.structure.all_branches[i]
            IN  branch.parent # 0 =>
                    branch.thickness <= last.structure.all_branches[branch.parent].thickness

\* C13: the number of branches of a generated structure never exceeds the
\* configured branches.max_branches
C13_BranchBudget ==
    last # NoResult =>
        last.metadata.branch_count <= last.structure.parameters.branches.max_branches

\* C14: once a generated structure is destroyed no branch of it remains alive
\* through parent or child references
C14_DestructionReleasesBranches ==
    last # NoResult => last.leaked = {}

\* lo <= v and v <= hi on floats: false for a NaN
InRange(v, lo, hi) == v # NaN /\ lo <= v /\ v <= hi

\* every bounded field of the parameter object p lies in its declared range
BoundedFieldsInRange(p) ==
    /\ InRange(p.canvas_width, 16, 512)
    /\ InRange(p.canvas_height, 16, 512)
    /\ InRange(p.overall_scale, One \div 10, 10 * One)
    /\ InRange(p.branches.base_thickness, One \div 10, 10 * One)
    /\ InRange(p.branches.thickness_decay, 0, One)
    /\ InRange(p.branches.branch_probability, 0, One)
    /\ InRange(p.branches.branch_angle_variation, 0, One)
    /\ InRange(p.branches.max_depth, 1, 10)
    /\ InRange(p.branches.max_branches, 8, 64)
    /\ InRange(p.branches.curvature, 0, One)
    /\ InRange(p.branches.asymmetry, 0, One)
    /\ InRange(p.leaves.density, 0, One)
    /\ InRange(p.leaves.size_base, One \div 10, 10 * One)
    /\ InRange(p.leaves.size_variation, 0, One)
    /\ InRange(p.leaves.color_variation, 0, One)
    /\ InRange(p.leaves.alpha_variation, 0, One)
    /\ InRange(p.trunk.color_variation, 0, One)
    /\ InRange(p.trunk.texture_noise, 0, One)
    /\ InRange(p.trunk.bark_detail, 0, One)
    /\ InRange(p.wind_direction, 0, 360 * One)
    /\ InRange(p.wind_strength, 0, One)
    /\ InRange(p.age_factor, 0, One)
    /\ InRange(p.determinism, 0, One)

\* C15: after construction and after every assignment a BoundedValue holds a
\* value in [Min, Max] (Max when it was given more, Min when it was given
\* less), and after validate() every bounded field of a TreeParameters is in
\* its range
C15_BoundedValuesStayInRange ==
    /\ obj.kind = "bounded" =>
          /\ InRange(obj.value_, obj.type.Min, obj.type.Max)
          /\ Less(obj.type.Max, out.given) => obj.value_ = obj.type.Max
          /\ Less(out.given, obj.type.Min) => obj.value_ = obj.type.Min
    /\ (obj.kind = "params" /\ obj.validated) => BoundedFieldsInRange(obj.value)

\* what does hold: a value that is a number is stored clamped, and validate()
\* of fields that are numbers leaves them in range
BoundedUnlessNaN ==
    /\ (obj.kind = "bounded" /\ out.given # NaN) =>
          obj.value_ = Max2(obj.type.Min, Min2(obj.type.Max, out.given))
    /\ (obj.kind = "params" /\ obj.validated /\ out.given.overall_scale # NaN) =>
          BoundedFieldsInRange(obj.value)

\* the colour written at index i of the filled part of a surface, the cleared
\* pixel elsewhere
IndexOrClear(buffer, i) ==
    IF i < Cardinality(DOMAIN buffer.px) THEN IndexColor(i) ELSE Transparent

\* the coordinate the call recorded in out asked about lies on the surface
OnSurface ==
    /\ 0 <= out.x
    /\ out.x < out.before.width
    /\ 0 <= out.y
    /\ out.y < out.before.height

SameButSeed(params, base) ==
    [params EXCEPT !.random_seed = 0] = [base EXCEPT !.random_seed = 0]

\* the surface buffer made for params has the canvas size of params, which
\* lies in [16, 512]; the canvas asked for as 600 x 10 is 512 x 16 and the one
\* asked for as 40 x 24 is 40 x 24
CanvasSized(buffer, params) ==
    /\ buffer.width = params.canvas_width
    /\ buffer.height = params.canvas_height
    /\ InRange(buffer.width, 16, 512)
    /\ InRange(buffer.height, 16, 512)
    /\ SameButSeed(params, WidePalm) => buffer.width = 512 /\ buffer.height = 16
    /\ SameButSeed(params, SmallOak) => buffer.width = 40 /\ buffer.height = 24

\* C17: the surface generate returns, and the surface render_structure makes
\* of a structure, has the width and height of the parameters' canvas, which
\* are the values asked for clamped to [16, 512]
C17_SurfaceHasCanvasSize ==
    /\ last # NoResult => CanvasSized(last.buffer, last.params)
    /\ out.kind = "surface" => CanvasSized(out.buffer, obj.params)

\* generate returned a surface for the canvas asked for as 600 x 10, and
\* render_structure made one of a structure with the canvas asked for as 40 x 24
C17_Witness ==
    /\ last # NoResult
    /\ SameButSeed(last.params, WidePalm)
    /\ last.buffer.width = 512
    /\ last.buffer.height = 16
    /\ out.kind = "surface"
    /\ SameButSeed(obj.params, SmallOak)
    /\ out.buffer.width = 40

\* the leaf density validate() leaves in params when their season is season
NormalizedDensity(params, season) == validate([params EXCEPT !.season = season]).leaves.density

\* C18 as stated: Winter gives a strictly lower normalized leaf density than
\* Summer for the same parameters, and a Winter oak has fewer than 10 leaves
C18_WinterStrictlyReduces ==
    (last # NoResult /\ last.params.season = "Winter") =>
        /\ last.structure.parameters.leaves.density < NormalizedDensity(last.params, "Summer")
        /\ last.params.type = "Oak" => last.metadata.leaf_count < 10

\* C18: the leaf density generate uses under Winter is 0.3 times the density
\* it uses for the same parameters under Summer, strictly lower whenever the
\* Summer density is above zero and zero when that is zero; a Winter oak has
\* fewer than 10 leaves
C18_WinterScalesDensity ==
    (last # NoResult /\ last.params.season = "Winter") =>
        LET winter == last.structure.parameters.leaves.density
            summer == NormalizedDensity(last.params, "Summer")
        IN  /\ winter = (summer * 3) \div 10
            /\ summer > 0 => winter < summer
            /\ summer = 0 => winter = 0
            /\ last.params.type = "Oak" => last.metadata.leaf_count < 10

\* generate returned a Winter oak: density 0.27 against 0.9 under Summer
C18_Witness ==
    /\ last # NoResult
    /\ last.params.season = "Winter"
    /\ last.params.type = "Oak"
    /\ last.structure.parameters.leaves.density > 0
    /\ last.structure.parameters.leaves.density < NormalizedDensity(last.params, "Summer")
    /\ last.metadata.leaf_count < 10

\* the caller holds what generate(P) returned and the structure
\* generate_structure(P) returned, for the same P with a seed of its own
SameExplicitCall ==
    /\ last # NoResult
    /\ obj.kind = "structure"
    /\ obj.params = last.params
    /\ last.params.random_seed # 0

\* C19: with an explicit seed generate_structure(P) returns the structure
\* generate(P) built (branches, leaf clusters, bounding box) and
\* render_structure makes of it the pixels generate(P) returned; a second
\* render_structure of the same structure gives the same surface, and
\* render_structure leaves the structure as it was
C19_StructureThenRenderIsGenerate ==
    /\ SameExplicitCall =>
          /\ obj.tree.all_branches = last.structure.all_branches
          /\ obj.tree.root = last.structure.root
          /\ obj.tree.leaf_clusters = last.structure.leaf_clusters
          /\ obj.tree.bounding_box = last.structure.bounding_box
          /\ out.kind = "surface" => out.buffer = last.buffer
    /\ out.kind = "surface" =>
          /\ obj.tree = out.before
          /\ out.earlier # <<>> => out.earlier[1] = out.buffer

\* generate(P) and generate_structure(P) returned for the same explicit seed,
\* the structure has branches and leaves, and it was rendered twice
C19_Witness ==
    /\ SameExplicitCall
    /\ Len(obj.tree.all_branches) > 1
    /\ Len(obj.tree.leaf_clusters) > 0
    /\ out.kind = "surface"
    /\ out.earlier # <<>>
    /\ out.buffer.px # <<>>

\* every pixel of buffer is 0x00000000
AllTransparent(buffer) ==
    \A i \in 0..(buffer.width * buffer.height - 1) : PixelAt(buffer, i) = Transparent

\* C20: for a structure without branches calculate_bounding_box leaves the
\* box with both corners at the origin, and render_structure of a structure
\* without branches and without leaf clusters returns a surface of the canvas
\* size whose pixels are all transparent
C20_EmptyStructureHandled ==
    (obj.kind = "structure" /\ obj.tree.all_branches = <<>>) =>
        /\ out.kind = "box" =>
              /\ obj.tree.bounding_box.min = [x |-> 0, y |-> 0]
              /\ obj.tree.bounding_box.max = [x |-> 0, y |-> 0]
        /\ (out.kind = "surface" /\ obj.tree.leaf_clusters = <<>>) =>
              /\ out.buffer.width = obj.params.canvas_width
              /\ out.buffer.height = obj.params.canvas_height
              /\ AllTransparent(out.buffer)

\* calculate_bounding_box ran on a structure without branches that held
\* another box and a leaf cluster
C20_Witness ==
    /\ obj.kind = "structure"
    /\ obj.tree.all_branches = <<>>
    /\ out.kind = "box"
    /\ out.before.bounding_box.max # [x |-> 0, y |-> 0]
    /\ out.before.leaf_clusters # <<>>
    /\ obj.tree.bounding_box.max = [x |-> 0, y |-> 0]

\* C21: a started generation returns; the rewriter leaves its loop after
\* exactly max_depth passes and the interpreter after one step per symbol;
\* every started line loop and leaf-disc loop reaches its end
C21_GenerationCompletes ==
    /\ ("main" \in DOMAIN frames) ~> (last # NoResult)
    /\ (obj.kind = "line") ~> (obj.kind = "line_done")
    /\ (obj.kind = "disc") ~> (obj.kind = "disc_done")
    /\ [](\A t \in DOMAIN frames :
            /\ frames[t].pc # "string" =>
                  frames[t].iteration = frames[t].normalized_params.branches.max_depth
            /\ frames[t].pc \notin {"string", "tree"} =>
                  frames[t].symbols = Len(frames[t].lstring))

\* a generation of a tree with a branching string has returned after its
\* loops were followed
C21_Witness ==
    /\ last # NoResult
    /\ Len(last.structure.all_branches) > 1
    /\ last.params.branches.max_depth = 2

\* the loops followed iteration by iteration give what the loops run in one
\* step give: the buffer is render's and the structure string_to_tree's
StepwiseAgrees ==
    \A t \in DOMAIN frames :
        /\ frames[t].pc = "return" => frames[t].buffer = render(frames[t].tree)
        /\ frames[t].pc \in {"render", "return"} =>
              frames[t].tree = calculate_bounding_box(frames[t].tree)

\* the destination pixel at coordinate c before (of obj) and after (of out) the
\* blit, and the source pixel laid over it
DestBefore(c) == PixelAt(obj.dest, PixelIndex(obj.dest, c[1], c[2]))
DestAfter(c) == PixelAt(out.dest, PixelIndex(out.dest, c[1], c[2]))
SourceOver(c) ==
    PixelAt(obj.source, PixelIndex(obj.source, c[1] - obj.position.x, c[2] - obj.position.y))

\* the destination coordinates a source pixel covers
Composited ==
    { c \in (0..(obj.dest.width - 1)) \X (0..(obj.dest.height - 1)) :
        /\ c[1] - obj.position.x \in 0..(obj.source.width - 1)
        /\ c[2] - obj.position.y \in 0..(obj.source.height - 1) }

\* C22 as stated: after blit_with_alpha every composited destination pixel
\* has alpha 255
C22_CompositedAlwaysOpaque ==
    out.kind = "blit_with_alpha" => \A c \in Composited : DestAfter(c)[4] = 255

\* C22: after blit_with_alpha a composited destination pixel is the pixel it
\* was when the source alpha is 0, the source pixel when the source alpha is
\* 255, and otherwise a pixel with alpha 255
C22_CompositedOpaqueUnlessSourceClear ==
    out.kind = "blit_with_alpha" =>
        \A c \in Composited :
            /\ SourceOver(c)[4] = 0 => DestAfter(c) = DestBefore(c)
            /\ SourceOver(c)[4] = 255 => DestAfter(c) = SourceOver(c)
            /\ SourceOver(c)[4] # 0 => DestAfter(c)[4] = 255

\* a translucent source pixel was blended over a clear destination pixel and
\* a source pixel with alpha 0 was laid over a translucent one
C22_Witness ==
    /\ out.kind = "blit_with_alpha"
    /\ \E c \in Composited :
          /\ SourceOver(c)[4] = 128
          /\ DestBefore(c) = Transparent
          /\ DestAfter(c)[4] = 255
    /\ \E c \in Composited :
          /\ SourceOver(c)[4] = 0
          /\ DestBefore(c)[4] = 128
          /\ DestAfter(c)[4] = 128

\* C23: every branch that has a parent starts at the end point of its parent
C23_BranchesConnected ==
    last # NoResult =>
        \A i \in DOMAIN last.structure.all_branches :
            LET b == last.structure.all_branches[i]
            IN  b.parent # 0 =>
                    b.start_point = last.structure.all_branches[b.parent].end_point

\* the interpreter state a symbol's own action leaves before the decay step:
\* for a pop with a non-empty stack the state saved by the matching push, for
\* every other symbol the thickness and depth it found
AfterOwnAction(c, it) ==
    IF c = "]" /\ it.state_stack # <<>>
    THEN it.state_stack[Len(it.state_stack)]
    ELSE it.current_state

\* C24: each symbol string_to_tree processes, of any kind, leaves as current
\* thickness the thickness after the symbol's own action times the decay
\* factor and as current depth that depth plus 1; a branch gets the thickness
\* and depth in effect when its grow symbol is met
C24_DecayAfterEverySymbol ==
    [][\A t \in (DOMAIN frames) \cap (DOMAIN frames') :
          (frames[t].pc = "tree" /\ frames'[t].symbols = frames[t].symbols + 1) =>
              LET c == frames[t].lstring[frames[t].symbols + 1]
                  own == AfterOwnAction(c, frames[t].it)
                  after == frames'[t].it.current_state
                  branches == frames'[t].it.tree.all_branches
              IN  /\ after.thickness = (own.thickness
                         * frames[t].normalized_params.branches.thickness_decay) \div One
                  /\ after.depth = own.depth + 1
                  /\ c = "F" =>
                        /\ Len(branches) = Len(frames[t].it.tree.all_branches) + 1
                        /\ branches[Len(branches)].depth_level = own.depth
                        /\ branches[Len(branches)].thickness = own.thickness]_vars

\* the interpreter has just processed a pop that restored a saved state: the
\* depth is below the number of symbols processed
C24_Witness ==
    /\ "main" \in DOMAIN frames
    /\ frames["main"].pc = "tree"
    /\ frames["main"].symbols >= 1
    /\ frames["main"].lstring[frames["main"].symbols] = "]"
    /\ frames["main"].it.current_state.depth < frames["main"].symbols
    /\ frames["main"].it.current_state.depth > 0

\* the number of symbols c among the first k of lstring
CountOf(lstring, c, k) == Cardinality({ i \in 1..k : lstring[i] = c })

\* no prefix of lstring has more ']' than '[', and the whole has as many
Balanced(lstring) ==
    /\ \A k \in 1..Len(lstring) : CountOf(lstring, "]", k) <= CountOf(lstring, "[", k)
    /\ CountOf(lstring, "]", Len(lstring)) = CountOf(lstring, "[", Len(lstring))

\* C25: a string generate_string made is balanced, so in string_to_tree no
\* pop meets an empty stack and the stack is empty after the last symbol; for
\* any string a pop on an empty stack leaves position, direction, colour,
\* stack and branch list as they were
C25_BalancedAndEmptyPopIsNoOp ==
    obj.kind = "interpreter" =>
        /\ (obj.generated /\ obj.symbols = 0) => Balanced(obj.lstring)
        /\ (obj.generated /\ out.kind = "symbol" /\ out.c = "]") =>
              out.before.state_stack # <<>>
        /\ (obj.generated /\ obj.symbols = Len(obj.lstring)) => obj.it.state_stack = <<>>
        /\ (out.kind = "symbol" /\ out.c = "]" /\ out.before.state_stack = <<>>) =>
              /\ obj.it.current_state.position = out.before.current_state.position
              /\ obj.it.current_state.direction = out.before.current_state.direction
              /\ obj.it.current_state.color = out.before.current_state.color
              /\ obj.it.state_stack = <<>>
              /\ obj.it.tree.all_branches = out.before.tree.all_branches

\* a pop met an empty stack after a branch was grown
C25_Witness ==
    /\ obj.kind = "interpreter"
    /\ out.kind = "symbol"
    /\ out.c = "]"
    /\ out.before.state_stack = <<>>
    /\ Len(obj.it.tree.all_branches) = 1
    /\ obj.it.current_state.depth = 2

\* C26: with branch probability 0 the rewriting never leaves "F", whatever
\* the depth 1..10 and whatever the draws, and the string generate_string
\* returns makes a structure of exactly one branch
C26_ZeroProbabilityGivesF ==
    (obj.kind = "rewriting" /\ obj.params.branches.branch_probability = 0) =>
        /\ obj.result = <<"F">>
        /\ obj.next_result \in {<<>>, <<"F">>}
        /\ out.kind = "tree" =>
              /\ out.lstring = <<"F">>
              /\ Len(out.tree.all_branches) = 1

\* the deepest rewriting, ten passes, returned "F" and made one branch
C26_Witness ==
    /\ obj.kind = "rewriting"
    /\ obj.params.branches.branch_probability = 0
    /\ obj.params.branches.max_depth = 10
    /\ obj.iteration = 10
    /\ out.kind = "tree"
    /\ out.lstring = <<"F">>
    /\ Len(out.tree.all_branches) = 1

\* the coordinates of the pixels buffer holds
SurfaceCoords(buffer) == (0..(buffer.width - 1)) \X (0..(buffer.height - 1))

\* C27: draw_line, draw_thick_line and draw_leaf_cluster call the unchecked
\* accessor only with coordinates of the surface, and so do blit and
\* blit_with_alpha, whose result holds no pixel beyond the destination's size
C27_WritesStayOnSurface ==
    /\ obj.kind \in {"line", "line_done", "disc", "disc_done", "thick_done"} =>
          obj.written \subseteq SurfaceCoords(obj.buffer)
    /\ out.kind \in {"blit", "blit_with_alpha"} =>
          /\ out.accessed \subseteq SurfaceCoords(obj.dest)
          /\ DOMAIN out.dest.px \subseteq 0..(obj.dest.width * obj.dest.height - 1)
          /\ out.dest.width = obj.dest.width
          /\ out.dest.height = obj.dest.height

\* a thick line from beyond the left edge to beyond the right edge was drawn:
\* some of its pixels were written and those off the surface were skipped
C27_Witness ==
    /\ obj.kind = "thick_done"
    /\ obj.half_thickness = 2
    /\ obj.x0 = -1
    /\ obj.x1 = MaxCoord
    /\ obj.y0 = 0
    /\ obj.y1 = 0
    /\ obj.written = SurfaceCoords(obj.buffer)

\* the branches of tree that have no children
Childless(tree) ==
    { i \in 1..Len(tree.all_branches) : tree.all_branches[i].children = <<>> }

\* the shape the archetype stands for
ShapeOfArchetype(type) ==
    IF type = "Pine" THEN "Spiky"
    ELSE IF type = "Palm" THEN "Ellipse"
    ELSE IF type = "Willow" THEN "Scattered"
    ELSE "Circle"

\* C28: the clusters of a generated structure belong one to one to branches
\* without children, each lies at its branch's end point, and each has the
\* shape of the structure's archetype
C28_ClustersAtChildlessBranchEnds ==
    obj.kind = "structure" =>
        LET clusters == obj.tree.leaf_clusters
        IN  /\ \E f \in [1..Len(clusters) -> Childless(obj.tree)] :
                  /\ \A j, k \in 1..Len(clusters) : f[j] = f[k] => j = k
                  /\ \A k \in 1..Len(clusters) :
                        clusters[k].position = obj.tree.all_branches[f[k]].end_point
            /\ \A k \in 1..Len(clusters) :
                  clusters[k].shape = ShapeOfArchetype(obj.params.type)

\* a willow with branches that have children got a cluster, Scattered
C28_Witness ==
    /\ obj.kind = "structure"
    /\ obj.params.type = "Willow"
    /\ Len(obj.tree.all_branches) > 2
    /\ Len(obj.tree.leaf_clusters) = 1
    /\ obj.tree.leaf_clusters[1].shape = "Scattered"

\* C29: in every generated structure each branch after the first has the
\* branch emitted just before it as its parent, so no branch has two
\* children, the last branch alone has none, and there is at most one leaf
\* cluster
C29_BranchesFormOneChain ==
    last # NoResult =>
        LET branches == last.structure.all_branches
        IN  /\ \A i \in DOMAIN branches : i > 1 => branches[i].parent = i - 1
            /\ \A i \in DOMAIN branches : Len(branches[i].children) <= 1
            /\ branches # <<>> => Childless(last.structure) = {Len(branches)}
            /\ Len(last.structure.leaf_clusters) <= 1

\* a structure whose string had pops, with many branches and its one cluster
C29_Witness ==
    /\ last # NoResult
    /\ Len(last.structure.all_branches) > 4
    /\ Childless(last.structure) = {Len(last.structure.all_branches)}
    /\ Len(last.structure.leaf_clusters) = 1

\* C30: validate() applied to parameters that validate() returned gives them
\* back unchanged
C30_ValidateIdempotent ==
    (obj.kind = "params" /\ out.kind = "validated") => validate(obj.value) = obj.value

=============================================================================
